---- MODULE Spec2Model ----
(***************************************************************************)
(* Model of the osa-backend request handlers: the identity store (users,   *)
(* login, bearer tokens) and the enrollment / approval workflow.           *)
(*                                                                         *)
(* Every handler runs in one SQLAlchemy session created by get_db with     *)
(* autoflush=False: queries are answered from the committed tables,        *)
(* attribute writes and db.add() stay in the session until db.commit(),    *)
(* and a handler that raises leaves through db.close(), which discards     *)
(* whatever the session holds.                                             *)
(***************************************************************************)
EXTENDS Integers, Sequences, FiniteSets, TLC

VARIABLES users, enrollments, parent_links, tokens, pending, resp,
          owned, platform_settings, exam_results,
          catalog, lesson_qa, student_data, inflight

vars == <<users, enrollments, parent_links, tokens, pending, resp,
          owned, platform_settings, exam_results,
          catalog, lesson_qa, student_data, inflight>>

\* the catalog below the courses, the lesson questions with their answers,
\* the rows a student leaves behind, and the requests that are under way
course_tables == <<catalog, lesson_qa, student_data, inflight>>

\* the tables the account and enrollment routes never touch
other_tables == <<owned, platform_settings, exam_results, course_tables>>

(***************************************************************************)
(* Bounds of the model.                                                    *)
(***************************************************************************)
MaxRows == 2        \* enrollment rows the table may hold
MaxAssign == 2      \* course assignments in one payload
MaxChildren == 2    \* child ids in one payload

(***************************************************************************)
(* Values.                                                                 *)
(***************************************************************************)
None == 0           \* Python None of an Optional[int]

CourseIds == {1, 2}                 \* rows of the courses table
PayloadCourseIds == {1, 2, 3}       \* course 3 does not exist
ClassCourse == (1 :> 1) @@ (2 :> 2) \* classes.course_id of class 1 and class 2
ClassIds == DOMAIN ClassCourse

Roles == {"student", "teacher", "parent", "admin"}
Emails == {"a@x", "b@x"}
Passwords == {"pw1", "pw2"}

\* CourseAssignmentPayload
Assign(c, k) == [course_id |-> c, class_id |-> k]

\* the assignments the requests carry: a course alone, a course with its class,
\* a course with the class of the other course, a course that does not exist
Assignment == {Assign(1, None), Assign(1, 1), Assign(1, 2),
               Assign(2, None), Assign(2, 2), Assign(3, None)}

\* an Enrollment row; its id is its position in the table
EnrollmentRow(s, c, k, a) ==
    [student_id |-> s, course_id |-> c, class_id |-> k, is_active |-> a]

\* the committed tables a handler works on
Db == [users |-> users, enrollments |-> enrollments, parent_links |-> parent_links]

Min(S) == CHOOSE x \in S : \A y \in S : x <= y

\* Query(...).first(): the matching row of lowest id
First(S) == Min(S)

\* db.query(Enrollment).filter(student_id == s, course_id == c, is_active)
ActiveEnrollmentIds(rows, s, c) ==
    {i \in 1..Len(rows) : /\ rows[i].student_id = s
                          /\ rows[i].course_id = c
                          /\ rows[i].is_active}

\* db.query(Enrollment).filter(student_id == s, is_active).all()
ActiveOfStudent(rows, s) ==
    {i \in 1..Len(rows) : rows[i].student_id = s /\ rows[i].is_active}

\* db.query(Class).filter(Class.id == k, Class.course_id == c).first()
ClassInCourse(k, c) == k \in ClassIds /\ ClassCourse[k] = c

\* db.query(User).filter(User.id == i, User.role == role).first()
UserWithRole(us, i, role) == i \in DOMAIN us /\ us[i].role = role

\* SessionLocal(): a session over the committed tables, nothing pending
SessionLocal(db) ==
    [users |-> db.users, rows |-> db.enrollments, adds |-> <<>>,
     links |-> db.parent_links, link_adds |-> <<>>]

\* uq_parent_student: the flush of the pending links breaks the constraint
LinkConflict(sess) ==
    \/ \E i \in 1..Len(sess.link_adds) : sess.link_adds[i] \in sess.links
    \/ \E i, j \in 1..Len(sess.link_adds) : i # j /\ sess.link_adds[i] = sess.link_adds[j]

\* db.commit(): flush the attribute writes and the pending inserts
Flush(sess) ==
    [users |-> sess.users,
     enrollments |-> sess.rows \o sess.adds,
     parent_links |-> sess.links \cup {sess.link_adds[i] : i \in 1..Len(sess.link_adds)}]

\* a close that writes the session out instead of discarding it
db_close_flushes(db, sess) == Flush(sess)

\* get_db's finally: db.close() on a session that never committed

db_close(db, sess) == db

\* a handler that ends in db.commit(): IntegrityError leaves through db.close()
db_commit(db, sess) ==
    IF LinkConflict(sess)
    THEN [status |-> 500, db |-> db_close(db, sess)]
    ELSE [status |-> 200, db |-> Flush(sess)]

\* what the last request was and how it was answered
NoReq == [none |-> TRUE]

Response(op, status, uid, req) ==
    [op |-> op, status |-> status, uid |-> uid, req |-> req]

(***************************************************************************)
(* POST /admin/users/{user_id}/approve                                     *)
(***************************************************************************)
\* the upsert of one assignment whose course and class passed the checks
ApproveUpsert(db, sess, uid, a) ==
    LET act == ActiveEnrollmentIds(db.enrollments, uid, a.course_id)
    IN IF act # {}
       THEN IF a.class_id # None
            THEN [sess EXCEPT !.rows[First(act)].class_id = a.class_id]
            ELSE sess
       ELSE [sess EXCEPT !.adds = Append(@,
                EnrollmentRow(uid, a.course_id, a.class_id, TRUE))]

\* the loop over payload.course_assignments; a 404 leaves the loop at once
RECURSIVE ApproveAssignments(_, _, _, _)
ApproveAssignments(db, sess, uid, as) ==
    IF as = <<>> THEN [status |-> 200, sess |-> sess]
    ELSE LET a == Head(as) IN
         IF a.course_id \notin CourseIds
         THEN [status |-> 404, sess |-> sess]
         ELSE IF a.class_id # None /\ ~ClassInCourse(a.class_id, a.course_id)
         THEN [status |-> 404, sess |-> sess]
         ELSE ApproveAssignments(db, ApproveUpsert(db, sess, uid, a), uid, Tail(as))

\* the loop over payload.child_ids
RECURSIVE ApproveChildren(_, _, _, _)
ApproveChildren(db, sess, uid, cs) ==
    IF cs = <<>> THEN [status |-> 200, sess |-> sess]
    ELSE IF ~UserWithRole(db.users, Head(cs), "student")
    THEN [status |-> 404, sess |-> sess]
    ELSE ApproveChildren(db,
            IF <<uid, Head(cs)>> \in db.parent_links
            THEN sess
            ELSE [sess EXCEPT !.link_adds = Append(@, <<uid, Head(cs)>>)],
            uid, Tail(cs))

\* the guard left out
AlreadyActive_never(user, activate) == FALSE

\* "User is already active"
AlreadyActive(user, activate) == user.is_active /\ activate

approve_user(db, uid, payload, children, activate) ==
    LET s0 == SessionLocal(db) IN
    IF uid \notin DOMAIN db.users
    THEN [status |-> 404, db |-> db_close(db, s0)]
    ELSE IF AlreadyActive(db.users[uid], activate)
    THEN [status |-> 400, db |-> db_close(db, s0)]
    ELSE LET s1 == [s0 EXCEPT !.users[uid].is_active = activate]
             r1 == IF db.users[uid].role = "student"
                   THEN ApproveAssignments(db, s1, uid, payload)
                   ELSE [status |-> 200, sess |-> s1]
             r2 == IF r1.status = 200 /\ db.users[uid].role = "parent"
                   THEN ApproveChildren(db, r1.sess, uid, children)
                   ELSE r1
         IN IF r2.status = 200
            THEN db_commit(db, r2.sess)
            ELSE [status |-> r2.status, db |-> db_close(db, r2.sess)]

(***************************************************************************)
(* PUT /admin/students/{student_id}/enrollments                            *)
(***************************************************************************)
Max(S) == CHOOSE x \in S : \A y \in S : y <= x

\* {assignment.course_id for assignment in payload.course_assignments}
IncomingCourseIds(payload) == {payload[i].course_id : i \in 1..Len(payload)}

\* existing_map = {enrollment.course_id: enrollment for enrollment in existing}:
\* of several active rows of one course the dict keeps the last one listed
ExistingMap(rows, sid, c) ==
    LET act == ActiveEnrollmentIds(rows, sid, c)
    IN IF act = {} THEN None ELSE Max(act)

\* the enrollments missing from the payload are left as they are
DeactivateMissing_keep(db, sess, sid, payload) == sess

\* "Deactivate enrollments not in payload"
DeactivateMissing(db, sess, sid, payload) ==
    [sess EXCEPT !.rows =
        [i \in 1..Len(sess.rows) |->
            IF /\ i \in ActiveOfStudent(db.enrollments, sid)
               /\ sess.rows[i].course_id \notin IncomingCourseIds(payload)
            THEN [sess.rows[i] EXCEPT !.is_active = FALSE]
            ELSE sess.rows[i]]]

UpdateUpsert(db, sess, sid, a) ==
    LET e == ExistingMap(db.enrollments, sid, a.course_id)
    IN IF e # None
       THEN [sess EXCEPT !.rows[e].is_active = TRUE,
                         !.rows[e].class_id = a.class_id]
       ELSE [sess EXCEPT !.adds = Append(@,
                EnrollmentRow(sid, a.course_id, a.class_id, TRUE))]

RECURSIVE UpdateAssignments(_, _, _, _)
UpdateAssignments(db, sess, sid, as) ==
    IF as = <<>> THEN [status |-> 200, sess |-> sess]
    ELSE LET a == Head(as) IN
         IF a.course_id \notin CourseIds
         THEN [status |-> 404, sess |-> sess]
         ELSE IF a.class_id # None /\ ~ClassInCourse(a.class_id, a.course_id)
         THEN [status |-> 404, sess |-> sess]
         ELSE UpdateAssignments(db, UpdateUpsert(db, sess, sid, a), sid, Tail(as))

update_student_enrollments(db, sid, payload) ==
    LET s0 == SessionLocal(db) IN
    IF ~UserWithRole(db.users, sid, "student")
    THEN [status |-> 404, db |-> db_close(db, s0)]
    ELSE LET r == UpdateAssignments(db, DeactivateMissing(db, s0, sid, payload),
                                    sid, payload)
         IN IF r.status = 200
            THEN db_commit(db, r.sess)
            ELSE [status |-> r.status, db |-> db_close(db, r.sess)]

(***************************************************************************)
(* POST /admin/enroll, DELETE /admin/enroll/{id},                          *)
(* PUT /admin/enrollments/{id}/class                                       *)
(***************************************************************************)
admin_enroll_student(db, sid, cid, k) ==
    LET s0 == SessionLocal(db)
        act == ActiveEnrollmentIds(db.enrollments, sid, cid)
    IN IF ~UserWithRole(db.users, sid, "student")
       THEN [status |-> 404, db |-> db_close(db, s0)]
       ELSE IF cid \notin CourseIds
       THEN [status |-> 404, db |-> db_close(db, s0)]
       ELSE IF act # {}
       THEN IF k = None
            THEN [status |-> 400, db |-> db_close(db, s0)]
            ELSE IF ~ClassInCourse(k, cid)
            THEN [status |-> 404, db |-> db_close(db, s0)]
            ELSE db_commit(db, [s0 EXCEPT !.rows[First(act)].class_id = k])
       ELSE IF k # None /\ ~ClassInCourse(k, cid)
       THEN [status |-> 404, db |-> db_close(db, s0)]
       ELSE db_commit(db, [s0 EXCEPT !.adds =
                Append(@, EnrollmentRow(sid, cid, k, TRUE))])

admin_unenroll_student(db, eid) ==
    LET s0 == SessionLocal(db) IN
    IF eid \notin 1..Len(db.enrollments)
    THEN [status |-> 404, db |-> db_close(db, s0)]
    ELSE db_commit(db, [s0 EXCEPT !.rows[eid].is_active = FALSE])

update_student_class(db, eid, k) ==
    LET s0 == SessionLocal(db) IN
    IF eid \notin 1..Len(db.enrollments)
    THEN [status |-> 404, db |-> db_close(db, s0)]
    ELSE IF ~ClassInCourse(k, db.enrollments[eid].course_id)
    THEN [status |-> 404, db |-> db_close(db, s0)]
    ELSE db_commit(db, [s0 EXCEPT !.rows[eid].class_id = k])

(***************************************************************************)
(* POST /students/enroll, DELETE /students/unenroll/{course_id}            *)
(***************************************************************************)
\* db.query(Enrollment).filter(student_id == s, course_id == c): active or not
EnrollmentIds(rows, s, c) ==
    {i \in 1..Len(rows) : rows[i].student_id = s /\ rows[i].course_id = c}

enroll_student(db, current_user, cid) ==
    LET s0 == SessionLocal(db) IN
    IF cid \notin CourseIds
    THEN [status |-> 404, db |-> db_close(db, s0)]
    ELSE IF ActiveEnrollmentIds(db.enrollments, current_user, cid) # {}
    THEN [status |-> 400, db |-> db_close(db, s0)]
    ELSE db_commit(db, [s0 EXCEPT !.adds =
             Append(@, EnrollmentRow(current_user, cid, None, TRUE))])

unenroll_student(db, current_user, cid) ==
    LET s0 == SessionLocal(db)
        found == EnrollmentIds(db.enrollments, current_user, cid)
    IN IF found = {}
       THEN [status |-> 404, db |-> db_close(db, s0)]
       ELSE db_commit(db, [s0 EXCEPT !.rows[First(found)].is_active = FALSE])

(***************************************************************************)
(* Identity: security.py, deps.py, routes/auth.py, routes/users.py         *)
(***************************************************************************)
NoToken == "none"   \* no Authorization header, a bad signature or an expired token

\* get_password_hash / verify_password: bcrypt accepts exactly the hashed plaintext
get_password_hash(password) == <<"bcrypt", password>>

verify_password(plain, hashed) == hashed = get_password_hash(plain)

\* create_access_token: of the claims sub, id, role only sub is ever read back
create_access_token(user) == user.email

\* db.query(User).filter(User.email == email).first()
UserByEmail(us, email) ==
    LET found == {i \in DOMAIN us : us[i].email = email}
    IN IF found = {} THEN None ELSE First(found)

\* get_current_user: the user the token's sub names, whatever its is_active
get_current_user(db, valid, token) ==
    IF token \notin valid
    THEN [status |-> 401, uid |-> None]
    ELSE LET u == UserByEmail(db.users, token)
         IN IF u = None
            THEN [status |-> 401, uid |-> None]
            ELSE [status |-> 200, uid |-> u]

require_role_own_role_only(db, valid, token, role) ==
    LET cur == get_current_user(db, valid, token)
    IN IF cur.status # 200 THEN cur
       ELSE IF db.users[cur.uid].role # role
       THEN [status |-> 403, uid |-> cur.uid]
       ELSE cur

require_role(db, valid, token, role) ==
    LET cur == get_current_user(db, valid, token)
    IN IF cur.status # 200 THEN cur
       ELSE IF db.users[cur.uid].role # role /\ db.users[cur.uid].role # "admin"
       THEN [status |-> 403, uid |-> cur.uid]
       ELSE cur

\* the activation check made before the password check
login_active_first(db, email, password) ==
    LET u == UserByEmail(db.users, email) IN
    IF u = None
    THEN [status |-> 401, uid |-> None, token |-> NoToken]
    ELSE IF ~db.users[u].is_active
    THEN [status |-> 403, uid |-> u, token |-> NoToken]
    ELSE IF ~verify_password(password, db.users[u].hashed_password)
    THEN [status |-> 401, uid |-> None, token |-> NoToken]
    ELSE [status |-> 200, uid |-> u, token |-> create_access_token(db.users[u])]

\* POST /auth/login
login(db, email, password) ==
    LET u == UserByEmail(db.users, email) IN
    IF u = None \/ ~verify_password(password, db.users[u].hashed_password)
    THEN [status |-> 401, uid |-> None, token |-> NoToken]
    ELSE IF ~db.users[u].is_active
    THEN [status |-> 403, uid |-> u, token |-> NoToken]
    ELSE [status |-> 200, uid |-> u, token |-> create_access_token(db.users[u])]

NextUserId(us) == IF DOMAIN us = {} THEN 1 ELSE Max(DOMAIN us) + 1

\* every account active from registration
RegisterActive_always(role) == TRUE

\* is_active = dto.role == "admin"
RegisterActive(role) == role = "admin"

\* POST /auth/register
register(db, email, password, role) ==
    IF UserByEmail(db.users, email) # None
    THEN [status |-> 400, uid |-> None, token |-> NoToken, db |-> db]
    ELSE LET id == NextUserId(db.users)
             u == [email |-> email,
                   hashed_password |-> get_password_hash(password),
                   role |-> role,
                   is_active |-> RegisterActive(role)]
         IN [status |-> 201, uid |-> id,
             token |-> IF u.is_active THEN create_access_token(u) ELSE NoToken,
             db |-> [db EXCEPT !.users = (id :> u) @@ db.users]]

\* PATCH /users/{user_id}/toggle-status
toggle_user_status(db, uid) ==
    LET s0 == SessionLocal(db) IN
    IF uid \notin DOMAIN db.users
    THEN [status |-> 404, db |-> db_close(db, s0)]
    ELSE db_commit(db, [s0 EXCEPT !.users[uid].is_active = ~@])

\* UserUpdate: a field left out of the body is None
NoChange == "unset"

\* PUT /users/{user_id}; the unique index on users.email rejects a taken email
update_user(db, uid, email, role, is_active, password) ==
    LET s0 == SessionLocal(db) IN
    IF uid \notin DOMAIN db.users
    THEN [status |-> 404, db |-> db_close(db, s0)]
    ELSE LET u0 == db.users[uid]
             u1 == [email |-> IF email # NoChange THEN email ELSE u0.email,
                    role |-> IF role # NoChange THEN role ELSE u0.role,
                    is_active |-> IF is_active # NoChange
                                  THEN is_active = "true" ELSE u0.is_active,
                    hashed_password |-> IF password # NoChange
                                        THEN get_password_hash(password)
                                        ELSE u0.hashed_password]
         IN IF \E j \in DOMAIN db.users : j # uid /\ db.users[j].email = u1.email
            THEN [status |-> 400, db |-> db_close(db, s0)]
            ELSE db_commit(db, [s0 EXCEPT !.users[uid] = u1])

(***************************************************************************)
(* Requests.  Each action is one request run to its response: the          *)
(* authentication dependency, the handler, and the commit or the close.    *)
(***************************************************************************)
Store(db) ==
    /\ Len(db.enrollments) <= MaxRows
    /\ users' = db.users
    /\ enrollments' = db.enrollments
    /\ parent_links' = db.parent_links
    /\ UNCHANGED other_tables

\* the admin operations that set is_active take an account out of "pending":
\* registered inactive and never since set active
StillPending(db) == {i \in pending : i \in DOMAIN db.users /\ ~db.users[i].is_active}

\* a handler behind Depends(require_role("admin"))
AsAdmin(token, result) ==
    LET auth == require_role(Db, tokens, token, "admin")
    IN IF auth.status # 200 THEN [status |-> auth.status, db |-> Db] ELSE result

\* the request as the response log keeps it: nothing of a request that was not let in
ReqOf(r, req) == IF r.status \in {401, 403} THEN NoReq ELSE req

\* the courses a payload assigns twice or more to a student who has no active
\* enrollment in them when the request arrives, each with the class of its last
\* assignment
PositionsOf(payload, c) == {i \in 1..Len(payload) : payload[i].course_id = c}

RepeatedFresh(db, uid, payload) ==
    {<<c, payload[Max(PositionsOf(payload, c))].class_id>> :
        c \in {d \in CourseIds : /\ Cardinality(PositionsOf(payload, d)) >= 2
                                  /\ ActiveEnrollmentIds(db.enrollments, uid, d) = {}}}

ApproveUser(token, uid, payload, children, activate) ==
    LET r == AsAdmin(token, approve_user(Db, uid, payload, children, activate))
    IN /\ Store(r.db)
       /\ pending' = StillPending(r.db)
       /\ resp' = Response("approve_user", r.status, uid,
                    ReqOf(r, [courses |-> IncomingCourseIds(payload),
                              repeated |-> RepeatedFresh(Db, uid, payload),
                              children |-> {children[i] : i \in 1..Len(children)},
                              activate |-> activate]))
       /\ UNCHANGED tokens

UpdateStudentEnrollments(token, sid, payload) ==
    LET r == AsAdmin(token, update_student_enrollments(Db, sid, payload))
    IN /\ Store(r.db)
       /\ resp' = Response("update_student_enrollments", r.status, sid,
                    ReqOf(r, [courses |-> IncomingCourseIds(payload)]))
       /\ UNCHANGED <<tokens, pending>>

AdminEnroll(token, sid, cid, k) ==
    LET r == AsAdmin(token, admin_enroll_student(Db, sid, cid, k))
    IN /\ Store(r.db)
       /\ resp' = Response("admin_enroll", r.status, sid,
                    ReqOf(r, [course_id |-> cid, class_id |-> k]))
       /\ UNCHANGED <<tokens, pending>>

AdminUnenroll(token, eid) ==
    LET r == AsAdmin(token, admin_unenroll_student(Db, eid))
    IN /\ Store(r.db)
       /\ resp' = Response("admin_unenroll", r.status, None,
                    ReqOf(r, [enrollment_id |-> eid]))
       /\ UNCHANGED <<tokens, pending>>

UpdateStudentClass(token, eid, k) ==
    LET r == AsAdmin(token, update_student_class(Db, eid, k))
    IN /\ Store(r.db)
       /\ resp' = Response("update_student_class", r.status, None,
                    ReqOf(r, [enrollment_id |-> eid, class_id |-> k]))
       /\ UNCHANGED <<tokens, pending>>

\* POST /students/enroll behind Depends(get_current_user)
StudentEnroll(token, cid) ==
    LET cur == get_current_user(Db, tokens, token)
        r == IF cur.status # 200 THEN [status |-> cur.status, db |-> Db]
             ELSE enroll_student(Db, cur.uid, cid)
    IN /\ Store(r.db)
       /\ resp' = Response("enroll", r.status, cur.uid,
                    ReqOf(r, [course_id |-> cid]))
       /\ UNCHANGED <<tokens, pending>>

\* DELETE /students/unenroll/{course_id} behind Depends(get_current_user)
StudentUnenroll(token, cid) ==
    LET cur == get_current_user(Db, tokens, token)
        r == IF cur.status # 200 THEN [status |-> cur.status, db |-> Db]
             ELSE unenroll_student(Db, cur.uid, cid)
    IN /\ Store(r.db)
       /\ resp' = Response("unenroll", r.status, cur.uid,
                    ReqOf(r, [course_id |-> cid]))
       /\ UNCHANGED <<tokens, pending>>

Login(email, password) ==
    LET r == login(Db, email, password)
    IN /\ tokens' = IF r.status = 200 THEN tokens \cup {r.token} ELSE tokens
       /\ resp' = Response("login", r.status, r.uid,
                    [email |-> email, password |-> password, token |-> r.token])
       /\ UNCHANGED <<users, enrollments, parent_links, pending>>
       /\ UNCHANGED other_tables

Register(email, password, role) ==
    LET r == register(Db, email, password, role)
    IN /\ Store(r.db)
       /\ tokens' = IF r.token # NoToken THEN tokens \cup {r.token} ELSE tokens
       /\ pending' = IF r.status = 201 /\ ~r.db.users[r.uid].is_active
                     THEN pending \cup {r.uid} ELSE pending
       /\ resp' = Response("register", r.status, r.uid, [role |-> role])

\* GET /users/me: any request that only needs Depends(get_current_user)
GetMe(token) ==
    LET cur == get_current_user(Db, tokens, token)
    IN /\ resp' = Response("get_me", cur.status, cur.uid,
                    NoReq)
       /\ UNCHANGED <<users, enrollments, parent_links, tokens, pending>>
       /\ UNCHANGED other_tables

ToggleUserStatus(token, uid) ==
    LET r == AsAdmin(token, toggle_user_status(Db, uid))
    IN /\ Store(r.db)
       /\ pending' = StillPending(r.db)
       /\ resp' = Response("toggle_user_status", r.status, uid, NoReq)
       /\ UNCHANGED tokens

UpdateUser(token, uid, email, role, is_active, password) ==
    LET r == AsAdmin(token, update_user(Db, uid, email, role, is_active, password))
    IN /\ Store(r.db)
       /\ pending' = StillPending(r.db)
       /\ resp' = Response("update_user", r.status, uid, NoReq)
       /\ UNCHANGED tokens

\* ACCESS_TOKEN_EXPIRE_MINUTES after its issue a token stops decoding
TokenExpires(token) ==
    /\ token \in tokens
    /\ tokens' = tokens \ {token}
    /\ UNCHANGED <<users, enrollments, parent_links, pending, resp>>
    /\ UNCHANGED other_tables

(***************************************************************************)
(* The inputs of the requests.                                             *)
(***************************************************************************)
SeqsUpTo(S, n) == UNION {[1..k -> S] : k \in 0..n}

Payloads == SeqsUpTo(Assignment, MaxAssign)

UserIdInputs == {1, 4}          \* the student, nobody
EnrollmentIdInputs == 1..(MaxRows + 1)

AdminEmail == "root@x"
TokenInputs == Emails \cup {AdminEmail, NoToken}

\* no course, subject, live class, exam or answer, no setting, no exam result
NoOwned == [courses |-> <<>>, subjects |-> <<>>, live_classes |-> <<>>,
            exams |-> <<>>, lesson_answers |-> <<>>]

\* no exam result, no exam published
NoExamResults == [rows |-> <<>>, published |-> {}]

\* no subject, lesson, lesson content or class session, no exam
NoCatalog == [subjects |-> <<>>, lessons |-> <<>>, contents |-> <<>>,
              class_sessions |-> <<>>, exams |-> <<>>]

\* no lesson question, no answer
NoLessonQa == [questions |-> <<>>, answers |-> <<>>]

\* no class progress, lesson progress or note
NoStudentData == [class_progress |-> <<>>, lesson_progress |-> <<>>, notes |-> <<>>]

\* a Subject row
Subject(course_id, instructor_id) == [course_id |-> course_id, instructor_id |-> instructor_id]

CourseTablesEmpty ==
    /\ catalog = NoCatalog
    /\ lesson_qa = NoLessonQa
    /\ student_data = NoStudentData
    /\ inflight = <<>>

OtherTablesEmpty ==
    /\ owned = NoOwned
    /\ platform_settings = <<>>
    /\ exam_results = NoExamResults
    /\ CourseTablesEmpty

User(email, password, role, active) ==
    [email |-> email, hashed_password |-> get_password_hash(password),
     role |-> role, is_active |-> active]

(***************************************************************************)
(* Enrollment and approval: an approved student who is logged in and an    *)
(* administrator, over a catalog of two courses with one class each.       *)
(***************************************************************************)
Init ==
    /\ users = (1 :> User("a@x", "pw1", "student", TRUE))
            @@ (3 :> User(AdminEmail, "pw1", "admin", TRUE))
    /\ enrollments = <<>>
    /\ parent_links = {}
    /\ OtherTablesEmpty
    /\ tokens = {"a@x", AdminEmail}
    /\ pending = {}
    /\ resp = Response("none", 0, None, NoReq)

Next ==
    \/ \E p \in Payloads, a \in BOOLEAN : ApproveUser(AdminEmail, 1, p, <<>>, a)
    \/ \E t \in TokenInputs, uid \in UserIdInputs :
            ApproveUser(t, uid, <<Assign(1, None)>>, <<>>, FALSE)
    \/ \E p \in Payloads : UpdateStudentEnrollments(AdminEmail, 1, p)
    \/ \E t \in TokenInputs, sid \in UserIdInputs :
            UpdateStudentEnrollments(t, sid, <<>>)
    \/ \E t \in tokens, sid \in UserIdInputs, c \in PayloadCourseIds,
          k \in {None} \cup ClassIds : AdminEnroll(t, sid, c, k)
    \/ \E t \in tokens, e \in EnrollmentIdInputs : AdminUnenroll(t, e)
    \/ \E t \in tokens, e \in EnrollmentIdInputs, k \in ClassIds :
            UpdateStudentClass(t, e, k)
    \/ \E t \in {"a@x", NoToken}, c \in PayloadCourseIds : StudentEnroll(t, c)
    \/ \E t \in {"a@x", NoToken}, c \in PayloadCourseIds : StudentUnenroll(t, c)

Spec == Init /\ [][Next]_vars

(***************************************************************************)
(* Identity: registration, login, bearer tokens and the admin operations   *)
(* that set is_active, from an empty users table.                          *)
(***************************************************************************)
RegisterRoles == {"student", "admin"}

\* users.email is unique: the table holds no more rows than there are emails
AuthUserIds == 1..(Cardinality(Emails) + 1)

InitAuth ==
    /\ users = <<>>
    /\ enrollments = <<>>
    /\ parent_links = {}
    /\ OtherTablesEmpty
    /\ tokens = {}
    /\ pending = {}
    /\ resp = Response("none", 0, None, NoReq)

\* UserUpdate bodies: nothing set, or one field set
UserUpdates ==
    LET none == [email |-> NoChange, role |-> NoChange,
                 is_active |-> NoChange, password |-> NoChange]
    IN {none}
       \cup {[none EXCEPT !.email = e] : e \in Emails}
       \cup {[none EXCEPT !.role = r] : r \in RegisterRoles}
       \cup {[none EXCEPT !.is_active = a] : a \in {"true", "false"}}
       \cup {[none EXCEPT !.password = pw] : pw \in Passwords}

NextAuth ==
    \/ \E e \in Emails, pw \in Passwords, r \in RegisterRoles : Register(e, pw, r)
    \/ \E e \in Emails, pw \in Passwords : Login(e, pw)
    \/ \E t \in Emails \cup {NoToken} : GetMe(t)
    \/ \E t \in tokens, uid \in AuthUserIds : ToggleUserStatus(t, uid)
    \/ \E t \in tokens, uid \in AuthUserIds, u \in UserUpdates :
            UpdateUser(t, uid, u.email, u.role, u.is_active, u.password)
    \/ \E t \in tokens, uid \in AuthUserIds, a \in BOOLEAN :
            ApproveUser(t, uid, <<>>, <<>>, a)
    \/ \E t \in tokens : TokenExpires(t)

SpecAuth == InitAuth /\ [][NextAuth]_vars

(***************************************************************************)
(* Approval alone: a student and a parent awaiting approval and an         *)
(* administrator; the administrator approves, rejects and toggles them.    *)
(***************************************************************************)
ChildIdInputs == {1, 2, 4}      \* the student, the parent, nobody
ChildLists == SeqsUpTo(ChildIdInputs, MaxChildren)

InitApprove ==
    /\ users = (1 :> User("a@x", "pw1", "student", FALSE))
            @@ (2 :> User("b@x", "pw1", "parent", FALSE))
            @@ (3 :> User(AdminEmail, "pw1", "admin", TRUE))
    /\ enrollments = <<>>
    /\ parent_links = {}
    /\ OtherTablesEmpty
    /\ tokens = {AdminEmail}
    /\ pending = {1, 2}
    /\ resp = Response("none", 0, None, NoReq)

NextApprove ==
    \/ \E p \in Payloads, a \in BOOLEAN : ApproveUser(AdminEmail, 1, p, <<>>, a)
    \/ \E cs \in ChildLists, a \in BOOLEAN : ApproveUser(AdminEmail, 2, <<>>, cs, a)
    \/ \E uid \in {1, 2, 4} : ToggleUserStatus(AdminEmail, uid)

SpecApprove == InitApprove /\ [][NextApprove]_vars

(***************************************************************************)
(* Properties.                                                             *)
(***************************************************************************)
StudentIds(us) == {i \in DOMAIN us : us[i].role = "student"}

\* an assignment that passes the course and the class lookups
ValidAssignment(a) ==
    /\ a.course_id \in CourseIds
    /\ a.class_id # None => ClassInCourse(a.class_id, a.course_id)

AllValid(payload) == \A i \in 1..Len(payload) : ValidAssignment(payload[i])

ActiveCourses(rows, s) == {rows[i].course_id : i \in ActiveOfStudent(rows, s)}

\* C1: after any sequence of completed calls every (student, course) pair has
\* at most one enrollment row with is_active = true.
C1_AtMostOneActivePerPair ==
    \A s \in DOMAIN users, c \in CourseIds :
        Cardinality(ActiveEnrollmentIds(enrollments, s, c)) <= 1

C3_UpdateReplacesActiveSet ==
    \A s \in StudentIds(users), p \in Payloads :
        LET r == update_student_enrollments(Db, s, p)
            after == r.db.enrollments
        IN r.status = 200 =>
            /\ ActiveCourses(after, s) = IncomingCourseIds(p)
            /\ Len(after) >= Len(enrollments)
            /\ \A i \in 1..Len(enrollments) :
                /\ after[i].student_id = enrollments[i].student_id
                /\ after[i].course_id = enrollments[i].course_id
                /\ (/\ i \in ActiveOfStudent(enrollments, s)
                    /\ enrollments[i].course_id \notin IncomingCourseIds(p))
                   => ~after[i].is_active
            /\ p = <<>> => /\ Len(after) = Len(enrollments)
                           /\ ActiveOfStudent(after, s) = {}

C3_Witness ==
    /\ resp.op = "update_student_enrollments" /\ resp.status = 200
    /\ resp.req.courses = {2}
    /\ \E i, j \in 1..Len(enrollments) :
        /\ enrollments[i].course_id = 1 /\ ~enrollments[i].is_active
        /\ enrollments[j].course_id = 2 /\ enrollments[j].is_active

\* C4: a failed updateStudentEnrollments (an absent course or a class of another
\* course at any assignment) leaves the enrollments exactly as they were.
C4_UpdateFailurePersistsNothing ==
    \A s \in StudentIds(users), p \in Payloads :
        LET r == update_student_enrollments(Db, s, p)
        IN /\ ~AllValid(p) => r.status = 404
           /\ r.status # 200 => r.db = Db

C4_Witness ==
    /\ resp.op = "update_student_enrollments" /\ resp.status = 404
    /\ resp.req.courses = {2, 3}
    /\ \E i \in 1..Len(enrollments) :
        enrollments[i].course_id = 1 /\ enrollments[i].is_active

\* C5: a user whose is_active flag is false is never authenticated, neither by
\* login nor by a bearer token issued while the account was active.
C5_InactiveNeverAuthenticated ==
    (resp.op \in {"login", "get_me"} /\ resp.status = 200)
        => users[resp.uid].is_active

\* C6: login checks the password before the activation: an unknown email or a
\* wrong password is 401 whether or not the account is active, the right
\* password on an inactive account is 403, and a token is issued exactly when
\* the password is right and the account is active.
C6_PasswordBeforeActivation ==
    resp.op = "login" =>
        LET u == UserByEmail(users, resp.req.email)
            right == /\ u # None
                     /\ users[u].hashed_password = <<"bcrypt", resp.req.password>>
        IN /\ ~right => resp.status = 401
           /\ (right /\ ~users[u].is_active) => resp.status = 403
           /\ (right /\ users[u].is_active) => resp.status = 200
           /\ resp.req.token # NoToken <=> (right /\ users[u].is_active)

C6_Witness ==
    /\ resp.op = "login" /\ resp.status = 401
    /\ \E u \in DOMAIN users :
        /\ users[u].email = resp.req.email
        /\ ~users[u].is_active

\* C7: register creates an active account exactly for the role admin, and an
\* account registered with another role logs in only after an admin operation
\* (approve with activate, toggle-status, user update) has set it active.
C7_RegisteredInactiveUntilActivated ==
    /\ (resp.op = "register" /\ resp.status = 201)
            => (users[resp.uid].is_active <=> resp.req.role = "admin")
    /\ (resp.op = "login" /\ resp.status = 200) => resp.uid \notin pending

C7_Witness ==
    /\ resp.op = "login" /\ resp.status = 200
    /\ users[resp.uid].role = "student"

\* C8: approveUser with activate = true on an active user fails with 400 and
\* changes nothing: the flag stays true and no assignment or child link of the
\* payload is applied.
C8_AlreadyActiveChangesNothing ==
    \A uid \in DOMAIN users :
        users[uid].is_active =>
            /\ \A p \in Payloads :
                LET r == approve_user(Db, uid, p, <<>>, TRUE)
                IN r.status = 400 /\ r.db = Db
            /\ \A cs \in ChildLists :
                LET r == approve_user(Db, uid, <<>>, cs, TRUE)
                IN r.status = 400 /\ r.db = Db

C8_Witness ==
    /\ resp.op = "approve_user" /\ resp.status = 400
    /\ resp.req.activate
    /\ resp.req.children = {1}
    /\ users[resp.uid].role = "parent" /\ users[resp.uid].is_active
    /\ parent_links = {}

\* C9: approveUser with two or more assignments for a course in which the
\* student had no active enrollment ends with exactly one active enrollment for
\* that course, carrying the class of the last such assignment.
C9_LastWriteWins ==
    (resp.op = "approve_user" /\ resp.status = 200) =>
        \A rc \in resp.req.repeated :
            LET act == ActiveEnrollmentIds(enrollments, resp.uid, rc[1])
            IN /\ Cardinality(act) = 1
               /\ \A i \in act : enrollments[i].class_id = rc[2]

\* C10: enrolling a student again in a course for which only deactivated rows
\* exist reactivates the existing row and inserts none.
C10_ReenrollReactivates ==
    [][\A s \in DOMAIN users, c \in CourseIds :
        (/\ EnrollmentIds(enrollments, s, c) # {}
         /\ ActiveEnrollmentIds(enrollments, s, c) = {}
         /\ ActiveEnrollmentIds(enrollments', s, c) # {})
        => EnrollmentIds(enrollments', s, c) = EnrollmentIds(enrollments, s, c)]_vars

(***************************************************************************)
(* PUT /admin/parents/{parent_id}/children                                 *)
(***************************************************************************)
\* the students a parent is linked to
LinkedTo(links, pid) == {l[2] : l \in {m \in links : m[1] = pid}}

\* desired_ids = set(payload.child_ids)
DesiredIds(children) == {children[i] : i \in 1..Len(children)}

\* the unlisted links left in place
RemoveUnlisted_keep(sess, pid, desired) == sess

\* "Remove links no longer present": db.delete(link) for the unlisted ones
RemoveUnlisted(sess, pid, desired) ==
    [sess EXCEPT !.links = {l \in @ : l[1] # pid \/ l[2] \in desired}]

\* db.add(ParentStudent(parent_id, student_id)) for each missing child
RECURSIVE AddMissing(_, _, _)
AddMissing(sess, pid, missing) ==
    IF missing = {} THEN sess
    ELSE AddMissing([sess EXCEPT !.link_adds = Append(@, <<pid, Min(missing)>>)],
                    pid, missing \ {Min(missing)})

update_parent_children(db, pid, children) ==
    LET s0 == SessionLocal(db) IN
    IF ~UserWithRole(db.users, pid, "parent")
    THEN [status |-> 404, db |-> db_close(db, s0)]
    ELSE LET desired == DesiredIds(children)
             s1 == RemoveUnlisted(s0, pid, desired)
             missing == desired \ LinkedTo(db.parent_links, pid)
         IN IF \E c \in missing : ~UserWithRole(db.users, c, "student")
            THEN [status |-> 404, db |-> db_close(db, s1)]
            ELSE db_commit(db, AddMissing(s1, pid, missing))

UpdateParentChildren(token, pid, children) ==
    LET r == AsAdmin(token, update_parent_children(Db, pid, children))
    IN /\ Store(r.db)
       /\ pending' = StillPending(r.db)
       /\ resp' = Response("update_parent_children", r.status, pid,
                    ReqOf(r, [children |-> DesiredIds(children),
                              removed |-> LinkedTo(parent_links, pid) \ DesiredIds(children)]))
       /\ UNCHANGED tokens

(***************************************************************************)
(* Parent links: two students, two parents (one awaiting approval) and an  *)
(* administrator who approves parents, edits their children and changes    *)
(* the role of a student.                                                  *)
(***************************************************************************)
LinkChildIds == {1, 2, 9}       \* two students, nobody
LinkChildLists == SeqsUpTo(LinkChildIds, MaxChildren)
LinkParentIds == {3, 4}

InitLinks ==
    /\ users = (1 :> User("a@x", "pw1", "student", TRUE))
            @@ (2 :> User("b@x", "pw1", "student", TRUE))
            @@ (3 :> User("p@x", "pw1", "parent", FALSE))
            @@ (4 :> User("q@x", "pw1", "parent", TRUE))
            @@ (5 :> User(AdminEmail, "pw1", "admin", TRUE))
    /\ enrollments = <<>>
    /\ parent_links = {}
    /\ OtherTablesEmpty
    /\ tokens = {AdminEmail}
    /\ pending = {3}
    /\ resp = Response("none", 0, None, NoReq)

NextLinks ==
    \/ \E pid \in LinkParentIds \cup {1}, cs \in LinkChildLists :
            UpdateParentChildren(AdminEmail, pid, cs)
    \/ UpdateParentChildren(NoToken, 3, <<>>)
    \/ \E pid \in LinkParentIds, cs \in LinkChildLists, a \in BOOLEAN :
            ApproveUser(AdminEmail, pid, <<>>, cs, a)
    \/ \E role \in {"student", "teacher"} :
            UpdateUser(AdminEmail, 2, NoChange, role, NoChange, NoChange)

SpecLinks == InitLinks /\ [][NextLinks]_vars

\* C11: approveUser on a parent is idempotent on the link list: from every
\* reachable state, approving a parent twice with the same child ids, all of
\* them existing students, leaves a ParentStudent row for every listed child
\* (the table holds at most one row per pair: uq_parent_student). The first
\* call is one the already-active guard lets through.
C11_ApproveLinksIdempotent ==
    \A pid \in LinkParentIds, cs \in LinkChildLists, a \in BOOLEAN :
        (/\ ~AlreadyActive(users[pid], a)
         /\ \A i \in 1..Len(cs) : UserWithRole(users, cs[i], "student")) =>
            LET r1 == approve_user(Db, pid, <<>>, cs, a)
                r2 == approve_user(r1.db, pid, <<>>, cs, a)
            IN DesiredIds(cs) \subseteq LinkedTo(r2.db.parent_links, pid)

\* C12: updateParentChildren replaces the links of the parent: on success the
\* linked students are exactly the listed ids and the links of other parents
\* are unchanged; a newly listed id that is not a student fails the call with
\* 404 and no link is removed or added.
C12_UpdateReplacesLinks ==
    \A pid \in LinkParentIds, cs \in LinkChildLists :
        LET r == update_parent_children(Db, pid, cs)
            newly == DesiredIds(cs) \ LinkedTo(parent_links, pid)
            bad == \E c \in newly : ~UserWithRole(users, c, "student")
        IN /\ bad => r.status = 404 /\ r.db = Db
           /\ ~bad => /\ r.status = 200
                      /\ LinkedTo(r.db.parent_links, pid) = DesiredIds(cs)
                      /\ \A q \in DOMAIN users \ {pid} :
                            LinkedTo(r.db.parent_links, q) = LinkedTo(parent_links, q)
                      /\ r.db.users = users /\ r.db.enrollments = enrollments

\* an edit that removed one child and linked another, beside another parent's link
C12_Witness ==
    /\ resp.op = "update_parent_children" /\ resp.status = 200
    /\ resp.req.removed # {}
    /\ resp.req.children # {} /\ LinkedTo(parent_links, resp.uid) = resp.req.children
    /\ \E q \in LinkParentIds \ {resp.uid} : LinkedTo(parent_links, q) # {}

(***************************************************************************)
(* POST /admin/teachers/{teacher_id}/reassign                              *)
(* owned holds, per table, the teacher each row points at (teacher_id, or  *)
(* instructor_id for subjects, which may be None).                         *)
(***************************************************************************)
OwnedTables == {"courses", "subjects", "live_classes", "exams", "lesson_answers"}

\* "Teacher not found"
_ensure_teacher_exists_any_role(us, teacher_id) == teacher_id \in DOMAIN us

_ensure_teacher_exists(us, teacher_id) ==
    teacher_id \in DOMAIN us /\ us[teacher_id].role = "teacher"

\* the comparison left out
SameTeacher_never(teacher_id, replacement_teacher_id) == FALSE

\* "Replacement teacher must be different"
SameTeacher(teacher_id, replacement_teacher_id) == teacher_id = replacement_teacher_id

\* query.filter(teacher_id == teacher.id).update({teacher_id: replacement.id})
Repoint(table, teacher_id, replacement_id) ==
    [i \in DOMAIN table |-> IF table[i] = teacher_id THEN replacement_id ELSE table[i]]

RepointAll(own, teacher_id, replacement_id) ==
    [courses |-> Repoint(own.courses, teacher_id, replacement_id),
     subjects |-> Repoint(own.subjects, teacher_id, replacement_id),
     live_classes |-> Repoint(own.live_classes, teacher_id, replacement_id),
     exams |-> Repoint(own.exams, teacher_id, replacement_id),
     lesson_answers |-> Repoint(own.lesson_answers, teacher_id, replacement_id)]

\* the rows of the owned tables that point at a user
OwnedBy(own, uid) ==
    UNION {{<<t, i>> : i \in {j \in DOMAIN own[t] : own[t][j] = uid}} : t \in OwnedTables}

\* a flush that commits: the repoints outlive a failure of the deletion
db_flush_commits(own, moved) == moved

\* db.flush(): the UPDATEs are in the transaction, the committed rows as before
db_flush(own, moved) == own

StudentTables == {"class_progress", "lesson_progress", "notes"}

\* the rows whose student_id is the user: exam results, class progress, lesson
\* progress, notes and lesson questions (student_data[t][i] is the student_id
\* of row i of table t)
StudentRows(er, qa, sd, uid) ==
    \/ \E i \in DOMAIN er.rows : er.rows[i].student_id = uid
    \/ \E i \in DOMAIN qa.questions : qa.questions[i].student_id = uid
    \/ \E t \in StudentTables : \E i \in DOMAIN sd[t] : sd[t][i] = uid

\* the connection without PRAGMA foreign_keys=ON: SQLite checks no foreign key
ReferencedBy_foreign_keys_off(rows, own, er, qa, sd, uid) == FALSE

\* the foreign keys on users.id that have no ON DELETE action
ReferencedBy(rows, own, er, qa, sd, uid) ==
    \/ \E i \in 1..Len(rows) : rows[i].student_id = uid
    \/ OwnedBy(own, uid) # {}
    \/ StudentRows(er, qa, sd, uid)

\* DELETE FROM users under PRAGMA foreign_keys=ON: a row that still points at
\* the user (no ON DELETE action) makes the statement fail
ForeignKeyViolation(db, own, uid) ==
    ReferencedBy(db.enrollments, own, exam_results, lesson_qa, student_data, uid)

\* db.delete(user): the row goes, and with it the parent links (ON DELETE CASCADE)
DeleteUser(db, uid) ==
    [db EXCEPT !.users = [i \in DOMAIN db.users \ {uid} |-> db.users[i]],
               !.parent_links = {l \in @ : l[1] # uid /\ l[2] # uid}]

reassign_teacher_and_delete(db, own, teacher_id, replacement_teacher_id) ==
    LET unchanged(status) == [status |-> status, db |-> db, owned |-> own] IN
    IF ~_ensure_teacher_exists(db.users, teacher_id) THEN unchanged(404)
    ELSE IF SameTeacher(teacher_id, replacement_teacher_id) THEN unchanged(400)
    ELSE IF ~_ensure_teacher_exists(db.users, replacement_teacher_id) THEN unchanged(404)
    ELSE IF ~db.users[replacement_teacher_id].is_active THEN unchanged(400)
    ELSE LET moved == RepointAll(own, teacher_id, replacement_teacher_id)
         IN IF ForeignKeyViolation(db, moved, teacher_id)
            THEN [status |-> 500, db |-> db, owned |-> db_flush(own, moved)]
            ELSE [status |-> 200, db |-> DeleteUser(db, teacher_id), owned |-> moved]

ReassignTeacherAndDelete(token, teacher_id, replacement_teacher_id) ==
    LET auth == require_role(Db, tokens, token, "admin")
        r == IF auth.status # 200
             THEN [status |-> auth.status, db |-> Db, owned |-> owned]
             ELSE reassign_teacher_and_delete(Db, owned, teacher_id, replacement_teacher_id)
    IN /\ users' = r.db.users
       /\ enrollments' = r.db.enrollments
       /\ parent_links' = r.db.parent_links
       /\ owned' = r.owned
       /\ pending' = StillPending(r.db)
       /\ resp' = Response("reassign_teacher_and_delete", r.status, teacher_id,
                    ReqOf(r, [replacement |-> replacement_teacher_id,
                              moved |-> Cardinality(OwnedBy(owned, teacher_id))]))
       /\ UNCHANGED <<tokens, platform_settings, exam_results, course_tables>>

(***************************************************************************)
(* Teachers: three teachers (one inactive), a student with an enrollment   *)
(* and a parent, and an administrator who reassigns teachers, toggles      *)
(* accounts and may turn the student into a teacher.                       *)
(***************************************************************************)
TeacherIdInputs == {1, 2, 3, 4, 9}   \* three teachers, the student, nobody
InitialOwners == {1, 2}

InitTeachers ==
    /\ users = (1 :> User("a@x", "pw1", "teacher", TRUE))
            @@ (2 :> User("b@x", "pw1", "teacher", TRUE))
            @@ (3 :> User("c@x", "pw1", "teacher", FALSE))
            @@ (4 :> User("s@x", "pw1", "student", TRUE))
            @@ (5 :> User("p@x", "pw1", "parent", TRUE))
            @@ (6 :> User(AdminEmail, "pw1", "admin", TRUE))
    /\ enrollments \in {<<>>, <<EnrollmentRow(4, 1, None, TRUE)>>}
    /\ parent_links = {<<5, 4>>}
    /\ tokens = {AdminEmail}
    /\ pending = {}
    /\ resp = Response("none", 0, None, NoReq)
    /\ \E c \in [1..2 -> InitialOwners], sub \in {None, 1}, la \in InitialOwners :
            owned = [courses |-> c, subjects |-> <<sub>>, live_classes |-> <<2>>,
                     exams |-> <<1>>, lesson_answers |-> <<la>>]
    /\ platform_settings = <<>>
    /\ exam_results = NoExamResults
    /\ CourseTablesEmpty

NextTeachers ==
    \/ \E t, r \in TeacherIdInputs : ReassignTeacherAndDelete(AdminEmail, t, r)
    \/ ReassignTeacherAndDelete(NoToken, 1, 2)
    \/ \E uid \in {2, 3} : ToggleUserStatus(AdminEmail, uid)
    \/ \E role \in {"student", "teacher"} :
            UpdateUser(AdminEmail, 4, NoChange, role, NoChange, NoChange)

SpecTeachers == InitTeachers /\ [][NextTeachers]_vars

\* an active teacher / a user with the teacher role
IsTeacher(uid) == uid \in DOMAIN users /\ users[uid].role = "teacher"
IsActiveTeacher(uid) == IsTeacher(uid) /\ users[uid].is_active

\* C13: a successful reassignTeacherAndDelete(t, r) removes the user row t and
\* turns every course, subject, live class, exam and lesson answer of t into
\* one of r, leaving the rows of other teachers and the other users as they
\* were; a call that fails at any step persists none of the repoints and not
\* the deletion.
C13_ReassignAllOrNothing ==
    \A t, r \in TeacherIdInputs :
        LET res == reassign_teacher_and_delete(Db, owned, t, r)
        IN IF res.status = 200
           THEN /\ t \notin DOMAIN res.db.users
                /\ \A u \in DOMAIN users \ {t} :
                        u \in DOMAIN res.db.users /\ res.db.users[u] = users[u]
                /\ OwnedBy(res.owned, t) = {}
                /\ OwnedBy(res.owned, r) = OwnedBy(owned, r) \cup OwnedBy(owned, t)
                /\ \A u \in (DOMAIN users \cup {None}) \ {t, r} :
                        OwnedBy(res.owned, u) = OwnedBy(owned, u)
                /\ \A tb \in OwnedTables : DOMAIN res.owned[tb] = DOMAIN owned[tb]
                /\ res.db.enrollments = enrollments
           ELSE res.db = Db /\ res.owned = owned

\* a reassignment that moved rows of several tables and deleted the teacher
C13_Witness ==
    /\ resp.op = "reassign_teacher_and_delete" /\ resp.status = 200
    /\ resp.req.moved >= 2
    /\ resp.uid \notin DOMAIN users
    /\ Cardinality(OwnedBy(owned, resp.req.replacement)) >= resp.req.moved

\* C14: whenever teacher_id equals replacement_teacher_id the call fails with
\* 400 and changes nothing, whether or not the id identifies a teacher.
C14_SameIdBadRequest ==
    \A t \in TeacherIdInputs :
        LET res == reassign_teacher_and_delete(Db, owned, t, t)
        IN res.status = 400 /\ res.db = Db /\ res.owned = owned

\* C14 as the code has it: with equal ids the call changes nothing, and fails
\* with 400 when the id identifies a user with the teacher role (active or
\* not) and with 404 when it does not.
C14_SameIdBadRequestForTeachers ==
    \A t \in TeacherIdInputs :
        LET res == reassign_teacher_and_delete(Db, owned, t, t)
        IN /\ res.status = IF IsTeacher(t) THEN 400 ELSE 404
           /\ res.db = Db /\ res.owned = owned

\* an active teacher who owns rows was named as their own replacement and refused
C14_Witness ==
    /\ resp.op = "reassign_teacher_and_delete" /\ resp.status = 400
    /\ resp.req.replacement = resp.uid
    /\ resp.req.moved > 0
    /\ IsActiveTeacher(resp.uid)

\* C15: with different ids the call fails with 404 and changes nothing whenever
\* teacher_id or replacement_teacher_id is not an active teacher (absent, of
\* another role, or inactive).
C15_NotActiveTeacherNotFound ==
    \A t, r \in TeacherIdInputs :
        (t # r /\ (~IsActiveTeacher(t) \/ ~IsActiveTeacher(r))) =>
            LET res == reassign_teacher_and_delete(Db, owned, t, r)
            IN res.status = 404 /\ res.db = Db /\ res.owned = owned

\* C15 as the code has it: with different ids the call fails with 404 and
\* changes nothing whenever either id is absent or of another role; with both
\* ids teachers, an inactive replacement fails with 400 and changes nothing,
\* and an inactive teacher_id is no ground for failure.
C15_NotTeacherNotFound ==
    \A t, r \in TeacherIdInputs :
        t # r =>
            LET res == reassign_teacher_and_delete(Db, owned, t, r)
            IN /\ (~IsTeacher(t) \/ ~IsTeacher(r)) =>
                    res.status = 404 /\ res.db = Db /\ res.owned = owned
               /\ (IsTeacher(t) /\ IsTeacher(r) /\ ~users[r].is_active) =>
                    res.status = 400 /\ res.db = Db /\ res.owned = owned
               /\ (IsTeacher(t) /\ IsActiveTeacher(r)) => res.status \in {200, 500}

\* a reassignment to a user who exists but is no teacher was refused
C15_Witness ==
    /\ resp.op = "reassign_teacher_and_delete" /\ resp.status = 404
    /\ IsTeacher(resp.uid)
    /\ resp.req.replacement \in DOMAIN users
    /\ ~IsTeacher(resp.req.replacement)

(***************************************************************************)
(* services/settings_service.py: JSON values are tagged, t the Python type *)
(* and v the content; a dict's content is a function from its keys.        *)
(***************************************************************************)
IntValue(n) == [t |-> "int", v |-> n]
BoolValue(b) == [t |-> "bool", v |-> b]
ListValue(s) == [t |-> "list", v |-> s]
DictValue(f) == [t |-> "dict", v |-> f]
NoneValue == [t |-> "none", v |-> None]
EmptyDict == DictValue([k \in {} |-> NoneValue])

\* isinstance(value, dict)
IsDict(value) == value.t = "dict"

\* {**a, **b}
Unpack(a, b) == b @@ a

\* a merge that stops at the top level: the override's dict replaces the default's
NestedMerge_replace(nested_default, value) == value

\* a merge that descends one level further than the code does
NestedMerge_deep(nested_default, value) ==
    DictValue([k \in DOMAIN nested_default.v \cup DOMAIN value.v |->
            IF k \notin DOMAIN value.v THEN nested_default.v[k]
            ELSE IF k \in DOMAIN nested_default.v /\ IsDict(value.v[k])
                    /\ IsDict(nested_default.v[k])
                 THEN DictValue(Unpack(nested_default.v[k].v, value.v[k].v))
                 ELSE value.v[k]])

\* merged[key] = {**nested_default, **value}
NestedMerge(nested_default, value) == DictValue(Unpack(nested_default.v, value.v))

merge_dict(defaults, overrides) ==
    IF overrides = NoneValue \/ overrides = EmptyDict
    THEN defaults
    ELSE DictValue([key \in DOMAIN defaults.v \cup DOMAIN overrides.v |->
            IF key \notin DOMAIN overrides.v THEN defaults.v[key]
            ELSE IF IsDict(overrides.v[key]) /\ key \in DOMAIN defaults.v
                    /\ IsDict(defaults.v[key])
                 THEN NestedMerge(defaults.v[key], overrides.v[key])
                 ELSE overrides.v[key]])

\* merge_dict(defaults, overrides), called
MergeDict ==
    /\ resp.op = "none"
    /\ resp' = Response("merge_dict", 200, None,
                 [defaults |-> resp.req.defaults, overrides |-> resp.req.overrides,
                  merged |-> merge_dict(resp.req.defaults, resp.req.overrides)])
    /\ UNCHANGED <<users, enrollments, parent_links, tokens, pending>>
    /\ UNCHANGED other_tables

(***************************************************************************)
(* merge_dict alone, over dicts of the keys a and b whose values are       *)
(* numbers, lists and dicts of up to two further levels.                   *)
(***************************************************************************)
DictsOver(keys, values) == {DictValue(f) : f \in UNION {[ks -> values] : ks \in SUBSET keys}}

ThirdLevel == {DictValue([p |-> IntValue(1), q |-> IntValue(2)]), DictValue([p |-> IntValue(9)])}
SecondLevel == DictsOver({"x", "y"}, {IntValue(1), IntValue(9)} \cup ThirdLevel)
Plain == {IntValue(1), ListValue(<<1, 2>>), ListValue(<<9>>)}

MergeInputs ==
    {DictValue(f) : f \in UNION {[{"a"} -> SecondLevel \cup Plain],
                                 [{"b"} -> Plain], [{} -> Plain]}}
    \cup {DictValue(("a" :> va) @@ ("b" :> vb)) : va \in SecondLevel \cup Plain, vb \in Plain}

InitMerge ==
    /\ users = <<>>
    /\ enrollments = <<>>
    /\ parent_links = {}
    /\ OtherTablesEmpty
    /\ tokens = {}
    /\ pending = {}
    /\ \E d \in MergeInputs, o \in MergeInputs \cup {NoneValue} :
            resp = Response("none", 0, None, [defaults |-> d, overrides |-> o])

NextMerge == MergeDict

SpecMerge == InitMerge /\ [][NextMerge]_vars

\* C16: merge(defaults, overrides) has every key of both; where the default
\* and the override of a key are both mappings the result is their key-wise
\* union with the override winning, each override value taken whole (a mapping
\* at the next level replaces, it is not merged); every other key of overrides
\* takes the override value whole (lists are not merged); the remaining keys
\* keep the default. merge({a:{x:1,y:2}}, {a:{x:9}}) = {a:{x:9,y:2}} and
\* merge({a:[1,2]}, {a:[9]}) = {a:[9]}.
C16_MergeOneLevel ==
    /\ resp.op = "merge_dict" =>
        LET d == resp.req.defaults.v
            o == IF resp.req.overrides = NoneValue THEN EmptyDict.v ELSE resp.req.overrides.v
            m == resp.req.merged
        IN /\ IsDict(m)
           /\ DOMAIN m.v = DOMAIN d \cup DOMAIN o
           /\ \A k \in DOMAIN m.v :
                IF k \notin DOMAIN o THEN m.v[k] = d[k]
                ELSE IF k \in DOMAIN d /\ IsDict(d[k]) /\ IsDict(o[k])
                THEN /\ IsDict(m.v[k])
                     /\ DOMAIN m.v[k].v = DOMAIN d[k].v \cup DOMAIN o[k].v
                     /\ \A j \in DOMAIN m.v[k].v :
                            m.v[k].v[j] = IF j \in DOMAIN o[k].v THEN o[k].v[j] ELSE d[k].v[j]
                ELSE m.v[k] = o[k]
    /\ merge_dict(DictValue([a |-> DictValue([x |-> IntValue(1), y |-> IntValue(2)])]),
                  DictValue([a |-> DictValue([x |-> IntValue(9)])]))
            = DictValue([a |-> DictValue([x |-> IntValue(9), y |-> IntValue(2)])])
    /\ merge_dict(DictValue([a |-> ListValue(<<1, 2>>)]), DictValue([a |-> ListValue(<<9>>)]))
            = DictValue([a |-> ListValue(<<9>>)])

\* a merge where a mapping two levels down was replaced by the override's
\* mapping while its sibling key kept the default
C16_Witness ==
    /\ resp.op = "merge_dict"
    /\ resp.req.defaults.v = [a |-> DictValue([x |-> DictValue([p |-> IntValue(1), q |-> IntValue(2)]),
                                           y |-> IntValue(1)])]
    /\ resp.req.overrides = DictValue([a |-> DictValue([x |-> DictValue([p |-> IntValue(9)])])])
    /\ resp.req.merged = DictValue([a |-> DictValue([x |-> DictValue([p |-> IntValue(9)]), y |-> IntValue(1)])])

(***************************************************************************)
(* The settings store: platform_settings holds the rows in id order, each  *)
(* with its key, its JSON value and its description.                       *)
(***************************************************************************)
DEFAULT_FEATURE_FLAGS ==
    DictValue([allow_teacher_live_classes |-> BoolValue(TRUE),
               allow_teacher_exam_creation |-> BoolValue(TRUE),
               allow_teacher_manage_course_content |-> BoolValue(TRUE),
               allow_teacher_view_student_progress |-> BoolValue(TRUE),
               allow_parent_view_progress |-> BoolValue(TRUE),
               allow_parent_message_teacher |-> BoolValue(TRUE),
               allow_parent_download_reports |-> BoolValue(TRUE),
               enable_course_catalog |-> BoolValue(TRUE),
               enable_student_self_enrollment |-> BoolValue(TRUE)])

DEFAULT_ROLE_PERMISSIONS ==
    DictValue([teacher |-> DictValue([manage_courses |-> BoolValue(TRUE),
                                      manage_course_content |-> BoolValue(TRUE),
                                      conduct_live_classes |-> BoolValue(TRUE),
                                      create_exams |-> BoolValue(TRUE),
                                      grade_exams |-> BoolValue(TRUE),
                                      respond_to_questions |-> BoolValue(TRUE),
                                      view_student_progress |-> BoolValue(TRUE),
                                      message_parents |-> BoolValue(TRUE)]),
               parent |-> DictValue([view_child_progress |-> BoolValue(TRUE),
                                     view_grades |-> BoolValue(TRUE),
                                     download_reports |-> BoolValue(TRUE),
                                     message_teacher |-> BoolValue(TRUE),
                                     join_live_classes |-> BoolValue(FALSE)])])

DEFAULT_SCHEDULE_CONFIG == DictValue([max_lessons_per_day |-> IntValue(3)])

SettingKeys == {"feature_flags", "role_permissions", "schedule_config"}

DefaultOf(key) ==
    CASE key = "feature_flags" -> DEFAULT_FEATURE_FLAGS
      [] key = "role_permissions" -> DEFAULT_ROLE_PERMISSIONS
      [] key = "schedule_config" -> DEFAULT_SCHEDULE_CONFIG

NoDescription == "null"     \* description: Optional[str] = None

PlatformSetting(key, value, description) ==
    [key |-> key, value |-> value, description |-> description]

\* db.query(PlatformSetting).filter(PlatformSetting.key == key)
SettingIds(store, key) == {i \in 1..Len(store) : store[i].key = key}

\* the stored value handed back as it is
Effective_stored(fallback, stored) == stored

\* merge_dict(fallback, setting.value or {})
Effective(fallback, stored) ==
    merge_dict(fallback, IF stored = NoneValue THEN EmptyDict ELSE stored)

get_platform_setting(store, key, fallback) ==
    IF SettingIds(store, key) = {}
    THEN [value |-> fallback,
          store |-> Append(store, PlatformSetting(key, fallback, NoDescription))]
    ELSE [value |-> Effective(fallback, store[First(SettingIds(store, key))].value),
          store |-> store]

\* an upsert that always inserts
UpsertSetting_insert(store, key, value, description) ==
    Append(store, PlatformSetting(key, value, description))

\* if setting: overwrite value (and description if given) else: db.add(setting)
UpsertSetting(store, key, value, description) ==
    IF SettingIds(store, key) # {}
    THEN LET i == First(SettingIds(store, key))
         IN [store EXCEPT ![i].value = value,
                          ![i].description = IF description # NoDescription
                                             THEN description ELSE @]
    ELSE Append(store, PlatformSetting(key, value, description))

save_platform_setting(store, key, value, description) ==
    LET saved == UpsertSetting(store, key, value, description)
    IN [value |-> saved[First(SettingIds(saved, key))].value, store |-> saved]

\* if payload.<field> is not None: current = merge_dict(current, payload.<field>)
Patched(current, field) == IF field # NoneValue THEN merge_dict(current, field) ELSE current

update_admin_settings(store, payload) ==
    LET g1 == get_platform_setting(store, "feature_flags", DEFAULT_FEATURE_FLAGS)
        g2 == get_platform_setting(g1.store, "role_permissions", DEFAULT_ROLE_PERMISSIONS)
        g3 == get_platform_setting(g2.store, "schedule_config", DEFAULT_SCHEDULE_CONFIG)
        s1 == save_platform_setting(g3.store, "feature_flags",
                    Patched(g1.value, payload.feature_flags), "Platform feature toggles")
        s2 == save_platform_setting(s1.store, "role_permissions",
                    Patched(g2.value, payload.role_permissions), "Role permission matrix")
        s3 == save_platform_setting(s2.store, "schedule_config",
                    Patched(g3.value, payload.schedule_config), "Class scheduling configuration")
    IN [status |-> 200, store |-> s3.store,
        value |-> [feature_flags |-> s1.value, role_permissions |-> s2.value,
                   schedule_config |-> s3.value]]

get_admin_settings(store) ==
    LET g1 == get_platform_setting(store, "feature_flags", DEFAULT_FEATURE_FLAGS)
        g2 == get_platform_setting(g1.store, "role_permissions", DEFAULT_ROLE_PERMISSIONS)
        g3 == get_platform_setting(g2.store, "schedule_config", DEFAULT_SCHEDULE_CONFIG)
    IN [status |-> 200, store |-> g3.store,
        value |-> [feature_flags |-> g1.value, role_permissions |-> g2.value,
                   schedule_config |-> g3.value]]

reset_admin_settings(store) ==
    LET s1 == save_platform_setting(store, "feature_flags", DEFAULT_FEATURE_FLAGS, NoDescription)
        s2 == save_platform_setting(s1.store, "role_permissions", DEFAULT_ROLE_PERMISSIONS, NoDescription)
        s3 == save_platform_setting(s2.store, "schedule_config", DEFAULT_SCHEDULE_CONFIG, NoDescription)
    IN [status |-> 200, store |-> s3.store,
        value |-> [feature_flags |-> s1.value, role_permissions |-> s2.value,
                   schedule_config |-> s3.value]]

\* a settings route behind Depends(require_role("admin"))
SettingsRoute(token, op, result, req) ==
    LET auth == require_role(Db, tokens, token, "admin")
        ok == auth.status = 200
    IN /\ platform_settings' = IF ok THEN result.store ELSE platform_settings
       /\ resp' = Response(op, IF ok THEN 200 ELSE auth.status, None,
                           IF ok THEN req ELSE NoReq)
       /\ UNCHANGED <<users, enrollments, parent_links, tokens, pending, owned, exam_results,
                      course_tables>>

GetAdminSettings(token) ==
    SettingsRoute(token, "get_admin_settings", get_admin_settings(platform_settings), NoReq)

UpdateAdminSettings(token, payload) ==
    SettingsRoute(token, "update_admin_settings",
                  update_admin_settings(platform_settings, payload),
                  [role_permissions |-> payload.role_permissions])

ResetAdminSettings(token) ==
    SettingsRoute(token, "reset_admin_settings", reset_admin_settings(platform_settings), NoReq)

\* the service functions called on their own
GetPlatformSetting(key, fallback) ==
    LET r == get_platform_setting(platform_settings, key, fallback)
    IN /\ platform_settings' = r.store
       /\ resp' = Response("get_platform_setting", 200, None, [key |-> key, value |-> r.value])
       /\ UNCHANGED <<users, enrollments, parent_links, tokens, pending, owned, exam_results,
                      course_tables>>

SavePlatformSetting(key, value) ==
    LET r == save_platform_setting(platform_settings, key, value, NoDescription)
    IN /\ platform_settings' = r.store
       /\ resp' = Response("save_platform_setting", 200, None, [key |-> key])
       /\ UNCHANGED <<users, enrollments, parent_links, tokens, pending, owned, exam_results,
                      course_tables>>

(***************************************************************************)
(* Settings: an administrator reads, updates and resets the settings, and  *)
(* the service functions are called with values of the types the schemas   *)
(* admit (Dict[str, bool], Dict[str, Dict[str, bool]], Dict[str, int]).    *)
(***************************************************************************)
FlagPayloads == {NoneValue, DictValue([enable_course_catalog |-> BoolValue(FALSE)])}

PermissionPayloads ==
    {NoneValue, EmptyDict,
     DictValue([teacher |-> DictValue([create_exams |-> BoolValue(FALSE)])]),
     DictValue([teacher |-> DictValue([create_exams |-> BoolValue(TRUE),
                                       grade_exams |-> BoolValue(FALSE)])]),
     DictValue([parent |-> DictValue([join_live_classes |-> BoolValue(TRUE)])])}

SchedulePayloads == {NoneValue, DictValue([max_lessons_per_day |-> IntValue(5)])}

AdminSettingsUpdate ==
    [feature_flags : FlagPayloads, role_permissions : PermissionPayloads,
     schedule_config : SchedulePayloads]

\* values a caller of save_platform_setting may hand in for a key
SavedValues(key) ==
    CASE key = "feature_flags" -> {EmptyDict} \cup (FlagPayloads \ {NoneValue})
      [] key = "role_permissions" ->
            {DictValue([teacher |-> DictValue([create_exams |-> BoolValue(FALSE)])]),
             DictValue([teacher |-> EmptyDict])}
      [] key = "schedule_config" -> SchedulePayloads \ {NoneValue}

InitSettings ==
    /\ users = (1 :> User(AdminEmail, "pw1", "admin", TRUE))
    /\ enrollments = <<>>
    /\ parent_links = {}
    /\ OtherTablesEmpty
    /\ tokens = {AdminEmail}
    /\ pending = {}
    /\ resp = Response("none", 0, None, NoReq)

NextSettings ==
    \/ GetAdminSettings(AdminEmail)
    \/ \E payload \in AdminSettingsUpdate : UpdateAdminSettings(AdminEmail, payload)
    \/ ResetAdminSettings(AdminEmail)
    \/ UpdateAdminSettings(NoToken, [feature_flags |-> NoneValue,
                                     role_permissions |-> NoneValue,
                                     schedule_config |-> NoneValue])
    \/ \E key \in SettingKeys : GetPlatformSetting(key, DefaultOf(key))
    \/ \E key \in SettingKeys : \E value \in SavedValues(key) :
            SavePlatformSetting(key, value)

SpecSettings == InitSettings /\ [][NextSettings]_vars

\* the value stored under a key
StoredValue(store, key) == store[First(SettingIds(store, key))].value

\* a value with every top-level key of the defaults and, under each key whose
\* default is a mapping, a mapping with every key of that default
Shaped(value, defaults) ==
    /\ IsDict(value)
    /\ DOMAIN defaults.v \subseteq DOMAIN value.v
    /\ \A k \in DOMAIN defaults.v :
            IsDict(defaults.v[k]) =>
                IsDict(value.v[k]) /\ DOMAIN defaults.v[k].v \subseteq DOMAIN value.v[k].v

\* C17: in every reachable state of the store (no row, a partial value, any
\* saved value) get(key, defaults) returns a value shaped like the defaults,
\* and when the key has no row it inserts exactly one, seeded with defaults.
C17_GetShapedLikeDefaults ==
    \A key \in SettingKeys :
        LET r == get_platform_setting(platform_settings, key, DefaultOf(key))
        IN /\ Shaped(r.value, DefaultOf(key))
           /\ IF SettingIds(platform_settings, key) = {}
              THEN /\ Len(r.store) = Len(platform_settings) + 1
                   /\ SubSeq(r.store, 1, Len(platform_settings)) = platform_settings
                   /\ r.store[Len(r.store)].key = key
                   /\ r.store[Len(r.store)].value = DefaultOf(key)
              ELSE r.store = platform_settings

\* a read of role_permissions over a stored value that names one teacher
\* permission only, answered with the other permissions and the parent role
C17_Witness ==
    /\ resp.op = "get_platform_setting" /\ resp.req.key = "role_permissions"
    /\ SettingIds(platform_settings, "role_permissions") # {}
    /\ DOMAIN StoredValue(platform_settings, "role_permissions").v = {"teacher"}
    /\ DOMAIN StoredValue(platform_settings, "role_permissions").v.teacher.v = {"create_exams"}
    /\ resp.req.value.v.teacher.v.create_exams = BoolValue(FALSE)
    /\ resp.req.value.v.teacher.v.grade_exams = BoolValue(TRUE)
    /\ "parent" \in DOMAIN resp.req.value.v

\* C18: save(key, value) then get(key, defaults) returns merge(defaults,
\* value); a second get returns the same and neither get changes the stored
\* rows; save adds no row for a key that has one.
C18_SaveGetRoundTrip ==
    \A key \in SettingKeys, dk \in SettingKeys :
        \A value \in SavedValues(key) \cup {DefaultOf(key)} :
            LET defaults == DefaultOf(dk)
                s == save_platform_setting(platform_settings, key, value, NoDescription)
                g1 == get_platform_setting(s.store, key, defaults)
                g2 == get_platform_setting(g1.store, key, defaults)
            IN /\ g1.value = merge_dict(defaults, value)
               /\ g2.value = g1.value
               /\ g1.store = s.store /\ g2.store = s.store
               /\ SettingIds(platform_settings, key) # {} =>
                        Len(s.store) = Len(platform_settings)
               /\ Cardinality(SettingIds(s.store, key)) = 1

\* a partial feature_flags value was saved over an existing row and then read
C18_Witness ==
    /\ resp.op = "get_platform_setting" /\ resp.req.key = "feature_flags"
    /\ Len(platform_settings) = 3
    /\ Cardinality(SettingIds(platform_settings, "feature_flags")) = 1
    /\ StoredValue(platform_settings, "feature_flags")
            = DictValue([enable_course_catalog |-> BoolValue(FALSE)])
    /\ resp.req.value = merge_dict(DEFAULT_FEATURE_FLAGS,
                                   StoredValue(platform_settings, "feature_flags"))
    /\ resp.req.value # DEFAULT_FEATURE_FLAGS

\* C19: an update that sets some permissions of one role stores exactly those
\* values for them and leaves every other permission of that role, every other
\* role, feature_flags and schedule_config at the value they had (the stored
\* one where one was stored), whatever the store held before.
C19_PartialUpdatePreservesSiblings ==
    \A rp \in PermissionPayloads \ {NoneValue, EmptyDict} :
        LET r == update_admin_settings(platform_settings,
                    [feature_flags |-> NoneValue, role_permissions |-> rp,
                     schedule_config |-> NoneValue])
            Before(key) == get_platform_setting(platform_settings, key, DefaultOf(key)).value
            After(key) == StoredValue(r.store, key)
            named(role, perm) == role \in DOMAIN rp.v /\ perm \in DOMAIN rp.v[role].v
        IN /\ \A key \in SettingKeys : Cardinality(SettingIds(r.store, key)) = 1
           /\ After("feature_flags") = Before("feature_flags")
           /\ After("schedule_config") = Before("schedule_config")
           /\ DOMAIN After("role_permissions").v
                = DOMAIN Before("role_permissions").v \cup DOMAIN rp.v
           /\ \A role \in DOMAIN Before("role_permissions").v :
                /\ DOMAIN Before("role_permissions").v[role].v
                        \subseteq DOMAIN After("role_permissions").v[role].v
                /\ \A perm \in DOMAIN After("role_permissions").v[role].v :
                     After("role_permissions").v[role].v[perm] =
                        IF named(role, perm) THEN rp.v[role].v[perm]
                        ELSE Before("role_permissions").v[role].v[perm]
           /\ \A key \in SettingKeys :
                SettingIds(platform_settings, key) # {} =>
                    LET sv == StoredValue(platform_settings, key)
                    IN \A k \in DOMAIN sv.v :
                        IF key # "role_permissions" THEN After(key).v[k] = sv.v[k]
                        ELSE \A perm \in DOMAIN sv.v[k].v :
                                ~named(k, perm) => After(key).v[k].v[perm] = sv.v[k].v[perm]

\* create_exams was switched off for teachers while grade_exams, switched off
\* earlier, and the parents' join_live_classes, switched on earlier, stayed
C19_Witness ==
    /\ resp.op = "update_admin_settings" /\ resp.status = 200
    /\ resp.req.role_permissions
            = DictValue([teacher |-> DictValue([create_exams |-> BoolValue(FALSE)])])
    /\ StoredValue(platform_settings, "role_permissions").v.teacher.v.create_exams = BoolValue(FALSE)
    /\ StoredValue(platform_settings, "role_permissions").v.teacher.v.grade_exams = BoolValue(FALSE)
    /\ StoredValue(platform_settings, "role_permissions").v.teacher.v.manage_courses = BoolValue(TRUE)
    /\ StoredValue(platform_settings, "role_permissions").v.parent.v.join_live_classes = BoolValue(TRUE)

(***************************************************************************)
(* POST /teachers/exams/{exam_id}/results                                  *)
(* exam_results.rows holds the ExamResult rows in id order, and            *)
(* exam_results.published the exams whose is_published is set;             *)
(* owned.exams holds Exam.teacher_id and catalog.exams Exam.course_id.     *)
(***************************************************************************)
MaxResults == 2         \* results in one payload
MaxResultRows == 3      \* exam result rows the table may hold
MaxExams == 3           \* exams the table may hold

ExamCourse == catalog.exams             \* Exam.course_id of each exam

\* Column(Boolean, nullable=False, default=False)
IsPublishedDefault_true == TRUE

IsPublishedDefault == FALSE

_ensure_course_access(course_id, course_ids) == course_id \in course_ids

ExamResult(exam_id, student_id, score) ==
    [exam_id |-> exam_id, student_id |-> student_id, score |-> score]

\* db.query(ExamResult).filter(exam_id, student_id)
ExamResultIds(rows, exam_id, student_id) ==
    {i \in 1..Len(rows) : rows[i].exam_id = exam_id /\ rows[i].student_id = student_id}

_get_teacher_course_ids(own, teacher_id) ==
    {c \in DOMAIN own.courses : own.courses[c] = teacher_id}

_ensure_student_in_courses(db, student_id, course_ids) ==
    \E c \in course_ids : ActiveEnrollmentIds(db.enrollments, student_id, c) # {}

\* the loop over payload.results: sess.rows are the committed rows with the
\* attribute writes, sess.adds the pending inserts
RECURSIVE UpsertResults(_, _, _, _)
UpsertResults(db, sess, exam_id, results) ==
    IF results = <<>> THEN [status |-> 200, sess |-> sess]
    ELSE LET r == Head(results)
             ids == ExamResultIds(sess.committed, exam_id, r.student_id)
         IN IF ~_ensure_student_in_courses(db, r.student_id, {ExamCourse[exam_id]})
            THEN [status |-> 404, sess |-> sess]
            ELSE UpsertResults(db,
                    IF ids # {}
                    THEN [sess EXCEPT !.rows[First(ids)].score = r.score]
                    ELSE [sess EXCEPT !.adds = Append(@, ExamResult(exam_id, r.student_id, r.score))],
                    exam_id, Tail(results))

upsert_exam_results(db, own, er, current_user, exam_id, results) ==
    LET unchanged(status) == [status |-> status, exam_results |-> er] IN
    IF exam_id \notin DOMAIN own.exams \/ own.exams[exam_id] # current_user
    THEN unchanged(404)
    ELSE IF ExamCourse[exam_id] \notin _get_teacher_course_ids(own, current_user)
    THEN unchanged(403)
    ELSE LET r == UpsertResults(db, [committed |-> er.rows, rows |-> er.rows, adds |-> <<>>],
                                exam_id, results)
         IN IF r.status # 200 THEN unchanged(r.status)
            ELSE [status |-> 200,
                  exam_results |-> [rows |-> r.sess.rows \o r.sess.adds,
                                    published |-> er.published \cup {exam_id}]]

\* POST /teachers/exams
create_exam(own, cat, er, current_user, course_id, subject_id) ==
    LET unchanged(status) == [status |-> status, owned |-> own, catalog |-> cat,
                              exam_results |-> er, id |-> None]
        id == Len(own.exams) + 1
    IN IF ~_ensure_course_access(course_id, _get_teacher_course_ids(own, current_user))
       THEN unchanged(403)
       ELSE IF /\ subject_id # None
               /\ \/ subject_id \notin DOMAIN cat.subjects
                  \/ cat.subjects[subject_id].course_id # course_id
       THEN unchanged(400)
       ELSE [status |-> 201,
             owned |-> [own EXCEPT !.exams = Append(@, current_user)],
             catalog |-> [cat EXCEPT !.exams = Append(@, course_id)],
             exam_results |-> [er EXCEPT !.published =
                                    IF IsPublishedDefault THEN @ \cup {id} ELSE @ \ {id}],
             id |-> id]

\* the score a payload supplies last for each student it lists
LastScores(results) ==
    {<<results[i].student_id, results[i].score>> :
        i \in {j \in 1..Len(results) :
                \A k \in (j + 1)..Len(results) : results[k].student_id # results[j].student_id}}

UpsertExamResults(token, exam_id, results) ==
    LET auth == require_role(Db, tokens, token, "teacher")
        r == IF auth.status # 200
             THEN [status |-> auth.status, exam_results |-> exam_results]
             ELSE upsert_exam_results(Db, owned, exam_results, auth.uid, exam_id, results)
    IN /\ Len(r.exam_results.rows) <= MaxResultRows
       /\ exam_results' = r.exam_results
       /\ resp' = Response("upsert_exam_results", r.status, exam_id,
                           ReqOf(r, [last |-> LastScores(results)]))
       /\ UNCHANGED <<users, enrollments, parent_links, tokens, pending, owned,
                      platform_settings, course_tables>>

CreateExam(token, course_id, subject_id) ==
    LET auth == require_role(Db, tokens, token, "teacher")
        r == IF auth.status # 200
             THEN [status |-> auth.status, owned |-> owned, catalog |-> catalog,
                   exam_results |-> exam_results, id |-> None]
             ELSE create_exam(owned, catalog, exam_results, auth.uid, course_id, subject_id)
    IN /\ Len(r.owned.exams) <= MaxExams
       /\ owned' = r.owned
       /\ catalog' = r.catalog
       /\ exam_results' = r.exam_results
       /\ resp' = Response("create_exam", r.status, r.id, NoReq)
       /\ UNCHANGED <<users, enrollments, parent_links, tokens, pending,
                      platform_settings, lesson_qa, student_data, inflight>>

(***************************************************************************)
(* Exam results: a teacher with a course, two exams (one of them of        *)
(* another teacher), two enrolled students and one who is not; the         *)
(* administrator may change an enrollment.                                 *)
(***************************************************************************)
ResultStudentIds == {3, 4, 5}
Scores == {80, 95}
ResultPayloads ==
    SeqsUpTo([student_id : ResultStudentIds, score : Scores], MaxResults)

InitExams ==
    /\ users = (1 :> User("a@x", "pw1", "teacher", TRUE))
            @@ (2 :> User("b@x", "pw1", "teacher", TRUE))
            @@ (3 :> User("s@x", "pw1", "student", TRUE))
            @@ (4 :> User("t@x", "pw1", "student", TRUE))
            @@ (5 :> User("u@x", "pw1", "student", TRUE))
            @@ (6 :> User(AdminEmail, "pw1", "admin", TRUE))
    /\ enrollments = <<EnrollmentRow(3, 1, None, TRUE), EnrollmentRow(4, 1, None, TRUE)>>
    /\ parent_links = {}
    /\ tokens = {"a@x", "s@x", AdminEmail}
    /\ pending = {}
    /\ resp = Response("none", 0, None, NoReq)
    /\ owned = [NoOwned EXCEPT !.courses = <<1, 2>>, !.exams = <<1, 2>>]
    /\ platform_settings = <<>>
    /\ exam_results = NoExamResults
    /\ catalog = [NoCatalog EXCEPT !.exams = <<1, 1>>,
                                   !.subjects = <<Subject(1, None), Subject(2, None)>>]
    /\ lesson_qa = NoLessonQa
    /\ student_data = NoStudentData
    /\ inflight = <<>>

NextExams ==
    \/ \E e \in {1, 2, 3}, rs \in ResultPayloads : UpsertExamResults("a@x", e, rs)
    \/ \E tk \in {"s@x", NoToken} : UpsertExamResults(tk, 1, <<>>)

SpecExams == InitExams /\ [][NextExams]_vars

(***************************************************************************)
(* Publishing: the same school, where the teacher also creates exams and   *)
(* the administrator ends the enrollment of the second student.            *)
(***************************************************************************)
PublishPayloads ==
    SeqsUpTo([student_id : {4, 5}, score : {80}], MaxResults)

NextPublish ==
    \/ \E e \in {1, 2, 3}, rs \in PublishPayloads : UpsertExamResults("a@x", e, rs)
    \/ \E tk \in {"s@x", NoToken} : UpsertExamResults(tk, 1, <<>>)
    \/ \E c \in {1, 2}, sub \in {None, 1, 2, 9} : CreateExam("a@x", c, sub)
    \/ \E tk \in {"s@x", NoToken} : CreateExam(tk, 1, None)
    \/ AdminUnenroll(AdminEmail, 2)

SpecPublish == InitExams /\ [][NextPublish]_vars

\* C20: after any sequence of bulk upserts there is exactly one ExamResult row
\* per uploaded (exam, student) pair, and after an upload the row of each
\* listed student holds the score the payload supplied last for that student.
C20_OneResultPerPair ==
    /\ \A e \in DOMAIN ExamCourse, st \in ResultStudentIds :
            Cardinality(ExamResultIds(exam_results.rows, e, st)) <= 1
    /\ (resp.op = "upsert_exam_results" /\ resp.status = 200) =>
            \A x \in resp.req.last :
                /\ Cardinality(ExamResultIds(exam_results.rows, resp.uid, x[1])) = 1
                /\ \A i \in ExamResultIds(exam_results.rows, resp.uid, x[1]) :
                        exam_results.rows[i].score = x[2]

\* C21: is_published is one-way.  A created exam is unpublished; an exam
\* becomes published only by a successful results upload for that exam, and
\* every successful upload leaves it published; no step unpublishes an exam;
\* an upload that fails changes neither the flags nor the stored results.
C21_PublishedOneWay ==
    [][/\ exam_results.published \subseteq exam_results'.published
       /\ \A e \in exam_results'.published \ exam_results.published :
            resp'.op = "upsert_exam_results" /\ resp'.status = 200 /\ resp'.uid = e
       /\ (resp'.op = "create_exam" /\ resp'.status = 201) =>
            /\ resp'.uid \notin DOMAIN owned.exams
            /\ resp'.uid \in DOMAIN owned'.exams
            /\ resp'.uid \notin exam_results'.published
       /\ (resp'.op = "upsert_exam_results" /\ resp'.status = 200) =>
            resp'.uid \in exam_results'.published
       /\ (resp'.op = "upsert_exam_results" /\ resp'.status # 200) =>
            exam_results' = exam_results]_vars

\* an upload for a created, still unpublished exam has failed on its second
\* student after an earlier upload published another exam and stored a row
C21_Witness ==
    /\ resp.op = "upsert_exam_results"
    /\ resp.status = 404
    /\ resp.uid = 3
    /\ 3 \in DOMAIN owned.exams
    /\ resp.req.last = {<<4, 80>>, <<5, 80>>}
    /\ exam_results.published = {1}
    /\ Len(exam_results.rows) = 1

(***************************************************************************)
(* POST /teachers/lessons/{lesson_id}/questions/{question_id}/answers      *)
(* lesson_qa.questions holds the LessonQuestion rows and lesson_qa.answers *)
(* the LessonAnswer rows, both in id order; LessonAnswer.teacher_id of     *)
(* answer i is owned.lesson_answers[i].                                    *)
(***************************************************************************)
MaxAnswers == 3         \* lesson answer rows the table may hold

Lesson(course_id, subject_id, title) ==
    [course_id |-> course_id, subject_id |-> subject_id, title |-> title]

LessonQuestion(lesson_id, student_id) == [lesson_id |-> lesson_id, student_id |-> student_id]

LessonAnswer(question_id, answer) == [question_id |-> question_id, answer |-> answer]

\* db.query(LessonAnswer).filter(LessonAnswer.question_id == question_id)
ExistingAnswerIds_none(answers, question_id) == {}

ExistingAnswerIds(answers, question_id) ==
    {i \in 1..Len(answers) : answers[i].question_id = question_id}

answer_lesson_question(own, cat, qa, current_user, lesson_id, question_id, answer) ==
    LET unchanged(status) == [status |-> status, owned |-> own, lesson_qa |-> qa]
        existing == ExistingAnswerIds(qa.answers, question_id)
    IN IF lesson_id \notin DOMAIN cat.lessons
       THEN unchanged(404)
       ELSE IF cat.lessons[lesson_id].subject_id \notin DOMAIN cat.subjects
       THEN unchanged(404)
       ELSE IF LET c == cat.subjects[cat.lessons[lesson_id].subject_id].course_id
               IN c \notin DOMAIN own.courses \/ own.courses[c] # current_user
       THEN unchanged(403)
       ELSE IF \/ question_id \notin 1..Len(qa.questions)
               \/ qa.questions[question_id].lesson_id # lesson_id
       THEN unchanged(404)
       ELSE IF existing # {}
       THEN [status |-> 201,
             owned |-> [own EXCEPT !.lesson_answers[First(existing)] = current_user],
             lesson_qa |-> [qa EXCEPT !.answers[First(existing)].answer = answer]]
       ELSE [status |-> 201,
             owned |-> [own EXCEPT !.lesson_answers = Append(@, current_user)],
             lesson_qa |-> [qa EXCEPT !.answers = Append(@, LessonAnswer(question_id, answer))]]

AnswerLessonQuestion(token, lesson_id, question_id, answer) ==
    LET auth == require_role(Db, tokens, token, "teacher")
        r == IF auth.status # 200
             THEN [status |-> auth.status, owned |-> owned, lesson_qa |-> lesson_qa]
             ELSE answer_lesson_question(owned, catalog, lesson_qa, auth.uid,
                                         lesson_id, question_id, answer)
    IN /\ Len(r.lesson_qa.answers) <= MaxAnswers
       /\ owned' = r.owned
       /\ lesson_qa' = r.lesson_qa
       /\ resp' = Response("answer_lesson_question", r.status, question_id,
                           ReqOf(r, [answer |-> answer, teacher_id |-> auth.uid]))
       /\ UNCHANGED <<users, enrollments, parent_links, tokens, pending,
                      platform_settings, exam_results, catalog, student_data, inflight>>

(***************************************************************************)
(* Answers: two teachers with a course each, lessons in both courses and   *)
(* three questions of a student; the administrator may hand one teacher's  *)
(* work to the other.                                                      *)
(***************************************************************************)
AnswerTexts == {"x", "y"}

InitAnswers ==
    /\ users = (1 :> User("a@x", "pw1", "teacher", TRUE))
            @@ (2 :> User("b@x", "pw1", "teacher", TRUE))
            @@ (3 :> User("s@x", "pw1", "student", TRUE))
            @@ (4 :> User(AdminEmail, "pw1", "admin", TRUE))
    /\ enrollments = <<>>
    /\ parent_links = {}
    /\ tokens = {"a@x", "b@x", "s@x", AdminEmail}
    /\ pending = {}
    /\ resp = Response("none", 0, None, NoReq)
    /\ owned = [NoOwned EXCEPT !.courses = <<1, 2>>]
    /\ platform_settings = <<>>
    /\ exam_results = NoExamResults
    /\ catalog = [NoCatalog EXCEPT
                    !.subjects = <<Subject(1, None), Subject(2, None)>>,
                    !.lessons = <<Lesson(1, 1, "t"), Lesson(2, 2, "t"), Lesson(1, 9, "t")>>]
    /\ lesson_qa = [questions |-> <<LessonQuestion(1, 3), LessonQuestion(1, 3),
                                    LessonQuestion(2, 3)>>,
                    answers |-> <<>>]
    /\ student_data = NoStudentData
    /\ inflight = <<>>

NextAnswers ==
    \/ \E tk \in {"a@x", "b@x"}, l \in {1, 2, 3, 9}, q \in {1, 2, 3, 9}, a \in AnswerTexts :
            AnswerLessonQuestion(tk, l, q, a)
    \/ \E tk \in {"s@x", NoToken} : AnswerLessonQuestion(tk, 1, 1, "x")
    \/ \E t \in {1, 2}, r \in {1, 2} : ReassignTeacherAndDelete(AdminEmail, t, r)

SpecAnswers == InitAnswers /\ [][NextAnswers]_vars

\* the LessonAnswer rows of a question
AnswersOf(question_id) == ExistingAnswerIds(lesson_qa.answers, question_id)

\* C22: after any sequence of answer_lesson_question calls every question has
\* at most one LessonAnswer row, and after a successful call that row holds
\* the text and the teacher id of the call.
C22_OneAnswerLatestWins ==
    /\ \A q \in 1..Len(lesson_qa.questions) : Cardinality(AnswersOf(q)) <= 1
    /\ (resp.op = "answer_lesson_question" /\ resp.status = 201) =>
            /\ Cardinality(AnswersOf(resp.uid)) = 1
            /\ \A i \in AnswersOf(resp.uid) :
                    /\ lesson_qa.answers[i].answer = resp.req.answer
                    /\ owned.lesson_answers[i] = resp.req.teacher_id

\* a question first answered by one teacher has been answered again by the
\* teacher who took the course over, with another text
C22_Witness ==
    /\ resp.op = "answer_lesson_question"
    /\ resp.status = 201
    /\ resp.uid = 1
    /\ resp.req = [answer |-> "y", teacher_id |-> 2]
    /\ 1 \notin DOMAIN users
    /\ Len(lesson_qa.answers) = 2
    /\ lesson_qa.answers[1] = LessonAnswer(1, "y")

(***************************************************************************)
(* The catalog below the courses: subjects, lessons, lesson contents and   *)
(* class sessions.  Each table of catalog maps the ids of its rows to the  *)
(* rows.  These routers take their session from app.core.db, whose engine  *)
(* has no foreign_keys pragma: SQLite lets a parent row go while children  *)
(* still point at it.  Depends(require_role("teacher", "admin")) is taken  *)
(* as the check that admits a teacher or an administrator.                 *)
(***************************************************************************)
MaxCatalogId == 2       \* the largest row id a catalog table may hold

LessonContent(lesson_id, title) == [lesson_id |-> lesson_id, title |-> title]

ClassSession(lesson_id, is_completed) ==
    [lesson_id |-> lesson_id, is_completed |-> is_completed]

\* db.add(row); db.commit(): the row takes the id after the largest one
Insert(table, row) == table @@ (NextUserId(table) :> row)

\* db.delete(row); db.commit()
Remove(table, id) == [i \in DOMAIN table \ {id} |-> table[i]]

\* db.query(Subject).filter(Subject.id == subject_id, Subject.course_id == course_id)
SubjectFound(cat, course_id, subject_id) ==
    /\ subject_id \in DOMAIN cat.subjects
    /\ cat.subjects[subject_id].course_id = course_id

\* db.query(Lesson).filter(Lesson.id == lesson_id, Lesson.subject_id == subject_id,
\*                         Lesson.course_id == course_id)
LessonFound_by_id(cat, course_id, subject_id, lesson_id) == lesson_id \in DOMAIN cat.lessons

LessonFound(cat, course_id, subject_id, lesson_id) ==
    /\ lesson_id \in DOMAIN cat.lessons
    /\ cat.lessons[lesson_id].subject_id = subject_id
    /\ cat.lessons[lesson_id].course_id = course_id

\* db.query(LessonContent).join(Lesson).filter(LessonContent.id == content_id,
\*     LessonContent.lesson_id == lesson_id, Lesson.subject_id == subject_id,
\*     Lesson.course_id == course_id)
ContentFound(cat, course_id, subject_id, lesson_id, content_id) ==
    /\ content_id \in DOMAIN cat.contents
    /\ cat.contents[content_id].lesson_id = lesson_id
    /\ LessonFound(cat, course_id, subject_id, cat.contents[content_id].lesson_id)

\* db.query(ClassSession).filter(ClassSession.id == session_id,
\*                               ClassSession.lesson_id == lesson_id)
SessionFound(cat, lesson_id, session_id) ==
    /\ session_id \in DOMAIN cat.class_sessions
    /\ cat.class_sessions[session_id].lesson_id = lesson_id

\* the instructor check of create_subject and update_subject
InvalidInstructor(us, instructor_id) ==
    /\ instructor_id # None
    /\ \/ instructor_id \notin DOMAIN us
       \/ us[instructor_id].role \notin {"teacher", "admin"}

Same(cat, status) == [status |-> status, catalog |-> cat]

create_subject(us, own, cat, course_id, data) ==
    IF course_id \notin DOMAIN own.courses THEN Same(cat, 404)
    ELSE IF data.course_id # course_id THEN Same(cat, 400)
    ELSE IF InvalidInstructor(us, data.instructor_id) THEN Same(cat, 400)
    ELSE [status |-> 201,
          catalog |-> [cat EXCEPT !.subjects =
                            Insert(@, Subject(data.course_id, data.instructor_id))]]

get_subject(cat, course_id, subject_id) ==
    IF ~SubjectFound(cat, course_id, subject_id) THEN Same(cat, 404) ELSE Same(cat, 200)

update_subject(us, cat, course_id, subject_id, data) ==
    IF ~SubjectFound(cat, course_id, subject_id) THEN Same(cat, 404)
    ELSE IF InvalidInstructor(us, data.instructor_id) THEN Same(cat, 400)
    ELSE [status |-> 200,
          catalog |-> [cat EXCEPT !.subjects[subject_id].instructor_id = data.instructor_id]]

delete_subject(cat, course_id, subject_id) ==
    IF ~SubjectFound(cat, course_id, subject_id) THEN Same(cat, 404)
    ELSE [status |-> 204, catalog |-> [cat EXCEPT !.subjects = Remove(@, subject_id)]]

create_lesson(cat, course_id, subject_id, data) ==
    IF ~SubjectFound(cat, course_id, subject_id) THEN Same(cat, 404)
    ELSE IF data.subject_id # subject_id THEN Same(cat, 400)
    ELSE [status |-> 201,
          catalog |-> [cat EXCEPT !.lessons =
                Insert(@, Lesson(cat.subjects[subject_id].course_id, data.subject_id,
                                 data.title))]]

get_lesson(cat, course_id, subject_id, lesson_id) ==
    IF ~LessonFound(cat, course_id, subject_id, lesson_id)
    THEN Same(cat, 404) ELSE Same(cat, 200)

\* data.title is NoChange when the body leaves the title out
update_lesson(cat, course_id, subject_id, lesson_id, data) ==
    IF ~LessonFound(cat, course_id, subject_id, lesson_id) THEN Same(cat, 404)
    ELSE [status |-> 200,
          catalog |-> IF data.title # NoChange
                      THEN [cat EXCEPT !.lessons[lesson_id].title = data.title]
                      ELSE cat]

delete_lesson(cat, course_id, subject_id, lesson_id) ==
    IF ~LessonFound(cat, course_id, subject_id, lesson_id) THEN Same(cat, 404)
    ELSE [status |-> 204, catalog |-> [cat EXCEPT !.lessons = Remove(@, lesson_id)]]

list_lesson_contents(cat, course_id, subject_id, lesson_id) ==
    IF ~LessonFound(cat, course_id, subject_id, lesson_id)
    THEN Same(cat, 404) ELSE Same(cat, 200)

create_lesson_content(cat, course_id, subject_id, lesson_id, data) ==
    IF ~LessonFound(cat, course_id, subject_id, lesson_id) THEN Same(cat, 404)
    ELSE IF data.lesson_id # lesson_id THEN Same(cat, 400)
    ELSE [status |-> 201,
          catalog |-> [cat EXCEPT !.contents =
                            Insert(@, LessonContent(data.lesson_id, data.title))]]

update_lesson_content(cat, course_id, subject_id, lesson_id, content_id, data) ==
    IF ~ContentFound(cat, course_id, subject_id, lesson_id, content_id) THEN Same(cat, 404)
    ELSE [status |-> 200,
          catalog |-> IF data.title # NoChange
                      THEN [cat EXCEPT !.contents[content_id].title = data.title]
                      ELSE cat]

delete_lesson_content(cat, course_id, subject_id, lesson_id, content_id) ==
    IF ~ContentFound(cat, course_id, subject_id, lesson_id, content_id) THEN Same(cat, 404)
    ELSE [status |-> 204, catalog |-> [cat EXCEPT !.contents = Remove(@, content_id)]]

\* data.iso tells whether date.fromisoformat and time.fromisoformat accept
\* the strings of the body
create_class_session(cat, lesson_id, data) ==
    IF lesson_id \notin DOMAIN cat.lessons THEN Same(cat, 404)
    ELSE IF ~data.iso THEN Same(cat, 400)
    ELSE IF data.lesson_id # lesson_id THEN Same(cat, 400)
    ELSE [status |-> 201,
          catalog |-> [cat EXCEPT !.class_sessions =
                            Insert(@, ClassSession(data.lesson_id, data.is_completed))]]

get_class_session(cat, lesson_id, session_id) ==
    IF ~SessionFound(cat, lesson_id, session_id) THEN Same(cat, 404) ELSE Same(cat, 200)

update_class_session(cat, lesson_id, session_id, data) ==
    IF ~SessionFound(cat, lesson_id, session_id) THEN Same(cat, 404)
    ELSE IF ~data.iso THEN Same(cat, 400)
    ELSE [status |-> 200,
          catalog |-> [cat EXCEPT !.class_sessions[session_id].is_completed =
                                        data.is_completed]]

delete_class_session(cat, lesson_id, session_id) ==
    IF ~SessionFound(cat, lesson_id, session_id) THEN Same(cat, 404)
    ELSE [status |-> 204,
          catalog |-> [cat EXCEPT !.class_sessions = Remove(@, session_id)]]

\* a catalog route: reads need a signed-in user, writes a teacher or an
\* administrator
CatalogRoute(token, write, op, result, id) ==
    LET auth == IF write THEN require_role(Db, tokens, token, "teacher")
                ELSE get_current_user(Db, tokens, token)
        r == IF auth.status # 200 THEN Same(catalog, auth.status) ELSE result
    IN /\ \A t \in {"subjects", "lessons", "contents", "class_sessions"} :
            \A i \in DOMAIN r.catalog[t] : i <= MaxCatalogId
       /\ catalog' = r.catalog
       /\ resp' = Response(op, r.status, id, NoReq)
       /\ UNCHANGED <<users, enrollments, parent_links, tokens, pending, owned,
                      platform_settings, exam_results, lesson_qa, student_data, inflight>>

\* the response of a catalog route names the row the path ends in (the
\* parent for a create)
CreateSubject(token, course_id, data) ==
    CatalogRoute(token, TRUE, "create_subject",
                 create_subject(users, owned, catalog, course_id, data), course_id)

GetSubject(token, course_id, subject_id) ==
    CatalogRoute(token, FALSE, "get_subject", get_subject(catalog, course_id, subject_id),
                 subject_id)

UpdateSubject(token, course_id, subject_id, data) ==
    CatalogRoute(token, TRUE, "update_subject",
                 update_subject(users, catalog, course_id, subject_id, data), subject_id)

DeleteSubject(token, course_id, subject_id) ==
    CatalogRoute(token, TRUE, "delete_subject", delete_subject(catalog, course_id, subject_id),
                 subject_id)

CreateLesson(token, course_id, subject_id, data) ==
    CatalogRoute(token, TRUE, "create_lesson",
                 create_lesson(catalog, course_id, subject_id, data), subject_id)

GetLesson(token, course_id, subject_id, lesson_id) ==
    CatalogRoute(token, FALSE, "get_lesson",
                 get_lesson(catalog, course_id, subject_id, lesson_id), lesson_id)

UpdateLesson(token, course_id, subject_id, lesson_id, data) ==
    CatalogRoute(token, TRUE, "update_lesson",
                 update_lesson(catalog, course_id, subject_id, lesson_id, data), lesson_id)

DeleteLesson(token, course_id, subject_id, lesson_id) ==
    CatalogRoute(token, TRUE, "delete_lesson",
                 delete_lesson(catalog, course_id, subject_id, lesson_id), lesson_id)

ListLessonContents(token, course_id, subject_id, lesson_id) ==
    CatalogRoute(token, FALSE, "list_lesson_contents",
                 list_lesson_contents(catalog, course_id, subject_id, lesson_id), lesson_id)

CreateLessonContent(token, course_id, subject_id, lesson_id, data) ==
    CatalogRoute(token, TRUE, "create_lesson_content",
                 create_lesson_content(catalog, course_id, subject_id, lesson_id, data),
                 lesson_id)

UpdateLessonContent(token, course_id, subject_id, lesson_id, content_id, data) ==
    CatalogRoute(token, TRUE, "update_lesson_content",
                 update_lesson_content(catalog, course_id, subject_id, lesson_id, content_id,
                                       data),
                 content_id)

DeleteLessonContent(token, course_id, subject_id, lesson_id, content_id) ==
    CatalogRoute(token, TRUE, "delete_lesson_content",
                 delete_lesson_content(catalog, course_id, subject_id, lesson_id, content_id),
                 content_id)

CreateClassSession(token, lesson_id, data) ==
    CatalogRoute(token, TRUE, "create_class_session",
                 create_class_session(catalog, lesson_id, data), lesson_id)

GetClassSession(token, lesson_id, session_id) ==
    CatalogRoute(token, FALSE, "get_class_session",
                 get_class_session(catalog, lesson_id, session_id), session_id)

UpdateClassSession(token, lesson_id, session_id, data) ==
    CatalogRoute(token, TRUE, "update_class_session",
                 update_class_session(catalog, lesson_id, session_id, data), session_id)

DeleteClassSession(token, lesson_id, session_id) ==
    CatalogRoute(token, TRUE, "delete_class_session",
                 delete_class_session(catalog, lesson_id, session_id), session_id)

(***************************************************************************)
(* Catalog: two courses with a subject and a lesson each, one content item *)
(* and one class session; a teacher edits the catalog, a student reads it. *)
(***************************************************************************)
CatalogIds == 1..MaxCatalogId
PathCourseIds == {1, 2, 9}
SubjectBodies == [course_id : {1, 2}, instructor_id : {None, 1, 3}]
LessonBodies == [subject_id : {1, 2}, course_id : {None, 1, 2}, title : {"t", "u"}]
LessonUpdates == [title : {NoChange, "u"}]
ContentBodies == [lesson_id : {1, 2}, title : {"t", "u"}]
SessionBodies == [lesson_id : {1, 2}, is_completed : BOOLEAN, iso : BOOLEAN]

InitCatalog ==
    /\ users = (1 :> User("a@x", "pw1", "teacher", TRUE))
            @@ (3 :> User("s@x", "pw1", "student", TRUE))
    /\ enrollments = <<>>
    /\ parent_links = {}
    /\ tokens = {"a@x", "s@x"}
    /\ pending = {}
    /\ resp = Response("none", 0, None, NoReq)
    /\ owned = [NoOwned EXCEPT !.courses = <<1, 1>>]
    /\ platform_settings = <<>>
    /\ exam_results = NoExamResults
    /\ catalog = [NoCatalog EXCEPT
                    !.subjects = <<Subject(1, None), Subject(2, None)>>,
                    !.lessons = <<Lesson(1, 1, "t"), Lesson(2, 2, "t")>>,
                    !.contents = <<LessonContent(1, "t"), LessonContent(2, "t")>>,
                    !.class_sessions = <<ClassSession(1, FALSE), ClassSession(2, FALSE)>>]
    /\ lesson_qa = NoLessonQa
    /\ student_data = NoStudentData
    /\ inflight = <<>>

\* the teacher removes and recreates the last row of each table, renames
\* nothing and completes the first class session; every row is read and
\* addressed under every path
NextCatalog ==
    \/ \E c \in PathCourseIds, data \in SubjectBodies :
            data.instructor_id # 1 /\ CreateSubject("a@x", c, data)
    \/ \E c \in PathCourseIds, sub \in CatalogIds : GetSubject("s@x", c, sub)
    \/ \E c \in PathCourseIds, sub \in CatalogIds, data \in SubjectBodies :
            data.instructor_id # 1 /\ UpdateSubject("a@x", c, sub, data)
    \/ \E c \in PathCourseIds : DeleteSubject("a@x", c, MaxCatalogId)
    \/ \E c \in {1, 2}, sub \in CatalogIds, data \in LessonBodies :
            data.title = "t" /\ CreateLesson("a@x", c, sub, data)
    \/ \E c \in {1, 2}, sub \in CatalogIds, l \in CatalogIds : GetLesson("s@x", c, sub, l)
    \/ \E c \in {1, 2}, sub \in CatalogIds, l \in CatalogIds :
            UpdateLesson("a@x", c, sub, l, [title |-> NoChange])
    \/ \E c \in {1, 2}, sub \in CatalogIds : DeleteLesson("a@x", c, sub, MaxCatalogId)
    \/ \E c \in {1, 2}, sub \in CatalogIds, l \in CatalogIds :
            ListLessonContents("s@x", c, sub, l)
    \/ \E c \in {1, 2}, sub \in CatalogIds, l \in CatalogIds, data \in ContentBodies :
            data.title = "t" /\ CreateLessonContent("a@x", c, sub, l, data)
    \/ \E c \in {1, 2}, sub \in CatalogIds, l \in CatalogIds, k \in CatalogIds :
            UpdateLessonContent("a@x", c, sub, l, k, [title |-> NoChange])
    \/ \E c \in {1, 2}, sub \in CatalogIds, l \in CatalogIds :
            DeleteLessonContent("a@x", c, sub, l, MaxCatalogId)
    \/ \E l \in CatalogIds, data \in SessionBodies :
            ~data.is_completed /\ CreateClassSession("a@x", l, data)
    \/ \E l \in CatalogIds, k \in CatalogIds : GetClassSession("s@x", l, k)
    \/ \E l \in CatalogIds, data \in SessionBodies : UpdateClassSession("a@x", l, 1, data)
    \/ \E l \in CatalogIds : DeleteClassSession("a@x", l, MaxCatalogId)
    \/ \E tk \in {"s@x", NoToken} : DeleteSubject(tk, 1, 1)
    \/ GetSubject(NoToken, 1, 1)

SpecCatalog == InitCatalog /\ [][NextCatalog]_vars

\* a refused request: 404 and the catalog as it was
NotFoundNothingChanged(r) == r.status = 404 /\ r.catalog = catalog

\* the lesson is recorded under this course and subject
LessonUnder(l, c, sub) ==
    catalog.lessons[l].course_id = c /\ catalog.lessons[l].subject_id = sub

\* C23: a subject, lesson, lesson content or class session that exists but
\* is addressed under a course, subject or lesson other than the one it is
\* recorded under is answered with 404 by get, update and delete, and the
\* catalog is left as it was.
C23_WrongAncestorNotFound ==
    /\ \A c \in PathCourseIds, sub \in DOMAIN catalog.subjects :
        catalog.subjects[sub].course_id # c =>
            /\ NotFoundNothingChanged(get_subject(catalog, c, sub))
            /\ NotFoundNothingChanged(delete_subject(catalog, c, sub))
            /\ \A data \in SubjectBodies :
                    NotFoundNothingChanged(update_subject(users, catalog, c, sub, data))
    /\ \A c \in PathCourseIds, sub \in CatalogIds, l \in DOMAIN catalog.lessons :
        ~LessonUnder(l, c, sub) =>
            /\ NotFoundNothingChanged(get_lesson(catalog, c, sub, l))
            /\ NotFoundNothingChanged(delete_lesson(catalog, c, sub, l))
            /\ \A data \in LessonUpdates :
                    NotFoundNothingChanged(update_lesson(catalog, c, sub, l, data))
    /\ \A c \in PathCourseIds, sub \in CatalogIds, l \in CatalogIds,
          k \in DOMAIN catalog.contents :
        ~(/\ catalog.contents[k].lesson_id = l
          /\ l \in DOMAIN catalog.lessons
          /\ LessonUnder(l, c, sub)) =>
            /\ NotFoundNothingChanged(delete_lesson_content(catalog, c, sub, l, k))
            /\ \A data \in LessonUpdates :
                    NotFoundNothingChanged(update_lesson_content(catalog, c, sub, l, k, data))
    /\ \A l \in CatalogIds, k \in DOMAIN catalog.class_sessions :
        catalog.class_sessions[k].lesson_id # l =>
            /\ NotFoundNothingChanged(get_class_session(catalog, l, k))
            /\ NotFoundNothingChanged(delete_class_session(catalog, l, k))
            /\ \A data \in SessionBodies :
                    NotFoundNothingChanged(update_class_session(catalog, l, k, data))

\* the second lesson was removed and created again under the first subject,
\* and a delete that addressed it under its former course got 404
C23_Witness ==
    /\ resp.op = "delete_lesson"
    /\ resp.status = 404
    /\ resp.uid = 2
    /\ 2 \in DOMAIN catalog.lessons
    /\ LessonUnder(2, 1, 1)
    /\ DOMAIN catalog.contents = {1, 2}

\* C24: a catalog create or update whose path exists and whose body names a
\* parent other than the one in the path is answered with 400, and the
\* catalog is left as it was.
C24_ParentMismatchBadRequest ==
    LET Rejected(r) == r.status = 400 /\ r.catalog = catalog IN
    /\ \A c \in DOMAIN owned.courses, data \in SubjectBodies :
        data.course_id # c => Rejected(create_subject(users, owned, catalog, c, data))
    /\ \A c \in PathCourseIds, sub \in CatalogIds, data \in SubjectBodies :
        (SubjectFound(catalog, c, sub) /\ data.course_id # c) =>
            Rejected(update_subject(users, catalog, c, sub, data))
    /\ \A c \in PathCourseIds, sub \in CatalogIds, data \in LessonBodies :
        (/\ SubjectFound(catalog, c, sub)
         /\ \/ data.subject_id # sub
            \/ data.course_id \notin {None, c}) =>
            Rejected(create_lesson(catalog, c, sub, data))
    /\ \A c \in PathCourseIds, sub \in CatalogIds, l \in CatalogIds, data \in ContentBodies :
        (LessonFound(catalog, c, sub, l) /\ data.lesson_id # l) =>
            Rejected(create_lesson_content(catalog, c, sub, l, data))
    /\ \A l \in DOMAIN catalog.lessons, data \in SessionBodies :
        data.lesson_id # l => Rejected(create_class_session(catalog, l, data))
    /\ \A l \in CatalogIds, k \in CatalogIds, data \in SessionBodies :
        (SessionFound(catalog, l, k) /\ data.lesson_id # l) =>
            Rejected(update_class_session(catalog, l, k, data))

(***************************************************************************)
(* The role check on its own: a route that does nothing but                *)
(* Depends(require_role(role)), called by a user of each role while the    *)
(* administrator changes roles.                                            *)
(***************************************************************************)
RequireRole(token, role) ==
    LET r == require_role(Db, tokens, token, role)
    IN /\ resp' = Response("require_role", r.status, r.uid, [role |-> role])
       /\ UNCHANGED <<users, enrollments, parent_links, tokens, pending>>
       /\ UNCHANGED other_tables

InitRoles ==
    /\ users = (1 :> User("a@x", "pw1", "student", TRUE))
            @@ (2 :> User("b@x", "pw1", "teacher", TRUE))
            @@ (3 :> User("p@x", "pw1", "parent", TRUE))
            @@ (4 :> User(AdminEmail, "pw1", "admin", TRUE))
    /\ enrollments = <<>>
    /\ parent_links = {}
    /\ OtherTablesEmpty
    /\ tokens = {"a@x", "b@x", "p@x", AdminEmail}
    /\ pending = {}
    /\ resp = Response("none", 0, None, NoReq)

NextRoles ==
    \/ \E t \in tokens \cup {NoToken}, r \in Roles : RequireRole(t, r)
    \/ \E uid \in 1..3, r \in Roles :
            UpdateUser(AdminEmail, uid, NoChange, r, NoChange, NoChange)
    \/ \E uid \in 1..3 : ToggleUserStatus(AdminEmail, uid)

SpecRoles == InitRoles /\ [][NextRoles]_vars

MaxInflight == 2        \* worker threads serving requests

Idle == [pc |-> "idle", kind |-> "none", uid |-> None, a |-> Assign(None, None),
         activate |-> FALSE, found |-> None]

\* the enrollments table declares no unique constraint
EnrollmentConstraint_one_active_per_pair(rows) ==
    \A i, j \in 1..Len(rows) :
        (/\ rows[i].is_active /\ rows[j].is_active
         /\ rows[i].student_id = rows[j].student_id
         /\ rows[i].course_id = rows[j].course_id) => i = j

EnrollmentConstraint(rows) == TRUE

\* approve_user up to its existence query: the user, the already-active
\* check, the course and the class
BeginApprove(req, token, uid, a, activate) ==
    LET auth == require_role(Db, tokens, token, "admin")
        status == IF auth.status # 200 THEN auth.status
                  ELSE IF uid \notin DOMAIN users THEN 404
                  ELSE IF AlreadyActive(users[uid], activate) THEN 400
                  ELSE IF users[uid].role # "student" THEN 0
                  ELSE IF a.course_id \notin CourseIds THEN 404
                  ELSE IF a.class_id # None /\ ~ClassInCourse(a.class_id, a.course_id) THEN 404
                  ELSE 0
    IN /\ inflight[req].pc = "idle"
       /\ IF status # 0
          THEN /\ resp' = Response("approve_user", status, uid, NoReq)
               /\ UNCHANGED inflight
          ELSE /\ inflight' = [inflight EXCEPT ![req] =
                    [pc |-> IF users[uid].role = "student" THEN "check" ELSE "write",
                     kind |-> "approve_user", uid |-> uid,
                     a |-> IF users[uid].role = "student" THEN a ELSE Assign(None, None),
                     activate |-> activate, found |-> None]]
               /\ UNCHANGED resp
       /\ UNCHANGED <<users, enrollments, parent_links, tokens, pending, owned,
                      platform_settings, exam_results, catalog, lesson_qa, student_data>>

\* enroll_student up to its existence query: the caller and the course
BeginEnroll(req, token, cid) ==
    LET cur == get_current_user(Db, tokens, token)
        status == IF cur.status # 200 THEN cur.status
                  ELSE IF cid \notin CourseIds THEN 404
                  ELSE 0
    IN /\ inflight[req].pc = "idle"
       /\ IF status # 0
          THEN /\ resp' = Response("enroll", status, cur.uid, NoReq)
               /\ UNCHANGED inflight
          ELSE /\ inflight' = [inflight EXCEPT ![req] =
                    [pc |-> "check", kind |-> "enroll", uid |-> cur.uid,
                     a |-> Assign(cid, None), activate |-> FALSE, found |-> None]]
               /\ UNCHANGED resp
       /\ UNCHANGED <<users, enrollments, parent_links, tokens, pending, owned,
                      platform_settings, exam_results, catalog, lesson_qa, student_data>>

\* the query for an active enrollment of the pair, answered from the
\* committed table; enroll_student ends here with 400 when it finds one
CheckExisting(req) ==
    LET q == inflight[req]
        act == ActiveEnrollmentIds(enrollments, q.uid, q.a.course_id)
        found == IF act = {} THEN None ELSE First(act)
    IN /\ q.pc = "check"
       /\ IF q.kind = "enroll" /\ found # None
          THEN /\ inflight' = [inflight EXCEPT ![req] = Idle]
               /\ resp' = Response("enroll", 400, q.uid, NoReq)
          ELSE /\ inflight' = [inflight EXCEPT ![req].pc = "write", ![req].found = found]
               /\ UNCHANGED resp
       /\ UNCHANGED <<users, enrollments, parent_links, tokens, pending, owned,
                      platform_settings, exam_results, catalog, lesson_qa, student_data>>

\* the write the request decided on and its db.commit(): the class pointer
\* of the row it found, or a new active row; approve_user also stores
\* user.is_active
CommitRequest(req) ==
    LET q == inflight[req]
        rows == IF q.a.course_id = None THEN enrollments
                ELSE IF q.found # None
                THEN IF q.a.class_id # None
                     THEN [enrollments EXCEPT ![q.found].class_id = q.a.class_id]
                     ELSE enrollments
                ELSE Append(enrollments,
                            EnrollmentRow(q.uid, q.a.course_id, q.a.class_id, TRUE))
        ok == EnrollmentConstraint(rows)
        us == IF q.kind = "approve_user" /\ q.uid \in DOMAIN users
              THEN [users EXCEPT ![q.uid].is_active = q.activate]
              ELSE users
    IN /\ q.pc = "write"
       /\ Len(rows) <= MaxRows
       /\ enrollments' = IF ok THEN rows ELSE enrollments
       /\ users' = IF ok THEN us ELSE users
       /\ pending' = IF ok THEN {i \in pending : ~us[i].is_active} ELSE pending
       /\ inflight' = [inflight EXCEPT ![req] = Idle]
       /\ resp' = Response(q.kind, IF ok THEN 200 ELSE 500, q.uid,
                           [course_id |-> q.a.course_id, found |-> q.found])
       /\ UNCHANGED <<parent_links, tokens, owned, platform_settings, exam_results,
                      catalog, lesson_qa, student_data>>

(***************************************************************************)
(* Overlapping requests: a student waiting for approval who is signed in,  *)
(* a second student, and the administrator.                                *)
(***************************************************************************)
InitRace ==
    /\ users = (1 :> User("a@x", "pw1", "student", FALSE))
            @@ (2 :> User("b@x", "pw1", "student", TRUE))
            @@ (3 :> User(AdminEmail, "pw1", "admin", TRUE))
    /\ enrollments = <<>>
    /\ parent_links = {}
    /\ tokens = {"a@x", AdminEmail}
    /\ pending = {1}
    /\ resp = Response("none", 0, None, NoReq)
    /\ owned = NoOwned
    /\ platform_settings = <<>>
    /\ exam_results = NoExamResults
    /\ catalog = NoCatalog
    /\ lesson_qa = NoLessonQa
    /\ student_data = NoStudentData
    /\ inflight = [req \in 1..MaxInflight |-> Idle]

NextRace ==
    \/ \E req \in 1..MaxInflight, uid \in {1, 3, 9}, c \in {1, 3}, k \in {None, 1},
          act \in BOOLEAN :
            BeginApprove(req, AdminEmail, uid, Assign(c, k), act)
    \/ \E req \in 1..MaxInflight : BeginApprove(req, "a@x", 1, Assign(1, None), TRUE)
    \/ \E req \in 1..MaxInflight, tk \in {"a@x", NoToken}, c \in {1, 3} :
            BeginEnroll(req, tk, c)
    \/ \E req \in 1..MaxInflight : CheckExisting(req)
    \/ \E req \in 1..MaxInflight : CommitRequest(req)

SpecRace == InitRace /\ [][NextRace]_vars

\* the active enrollments of a request's student in its course
ActiveOfRequest(rows, q) == ActiveEnrollmentIds(rows, q.uid, q.a.course_id)

\* C26: the existence query of a request is answered from what is committed
\* at that moment, and a request whose query found no active enrollment adds
\* one at its commit whatever has been committed since: nothing rejects the
\* insert.  Two requests for one student and course that both query before
\* either commits therefore leave two active enrollments of the pair.
C26_CheckThenInsertRaces ==
    [][\A req \in 1..MaxInflight :
        LET q == inflight[req] IN
        /\ (q.pc = "check" /\ inflight'[req].pc = "write") =>
                (inflight'[req].found = None <=> ActiveOfRequest(enrollments, q) = {})
        /\ (q.pc = "write" /\ q.a.course_id # None /\ q.found = None
            /\ inflight'[req].pc = "idle") =>
                /\ resp'.status = 200
                /\ Cardinality(ActiveOfRequest(enrollments', q))
                        = Cardinality(ActiveOfRequest(enrollments, q)) + 1]_vars

\* an approval and the student's own enrollment, both for course 1, have
\* both found nothing and both committed
C26_Witness ==
    /\ Len(enrollments) = 2
    /\ Cardinality(ActiveEnrollmentIds(enrollments, 1, 1)) = 2
    /\ resp.status = 200
    /\ resp.req.found = None
    /\ \A req \in 1..MaxInflight : inflight[req].pc = "idle"

\* the class pointers of the student's active enrollments in the course
ClassPointers(rows, s, c) == {rows[i].class_id : i \in ActiveEnrollmentIds(rows, s, c)}

\* C27: for a student with an active enrollment in course c, approve_user
\* and update_student_enrollments given the one assignment (c, class) both
\* leave the enrollment with the same class pointer, for every class of the
\* course and for no class.
C27_SameUpsertRule ==
    \A s \in StudentIds(users), c \in CourseIds, k \in ClassIds \cup {None}, act \in BOOLEAN :
        LET viaApprove == approve_user(Db, s, <<Assign(c, k)>>, <<>>, act)
            viaUpdate == update_student_enrollments(Db, s, <<Assign(c, k)>>)
        IN (/\ ActiveEnrollmentIds(enrollments, s, c) # {}
            /\ viaApprove.status = 200
            /\ viaUpdate.status = 200) =>
                ClassPointers(viaApprove.db.enrollments, s, c)
                    = ClassPointers(viaUpdate.db.enrollments, s, c)

(***************************************************************************)
(* C28: DELETE /students/unenroll/{course_id} that answers with success    *)
(* leaves the caller without an active enrollment in that course, also     *)
(* when the pair has deactivated rows of earlier enroll/unenroll cycles.   *)
(***************************************************************************)
\* the student's own enroll/unenroll cycles, with the administrator moving
\* the student between classes and unenrolling by enrollment id
NextCycles ==
    \/ \E t \in {"a@x", NoToken}, c \in PayloadCourseIds : StudentEnroll(t, c)
    \/ \E t \in {"a@x", NoToken}, c \in PayloadCourseIds : StudentUnenroll(t, c)
    \/ \E e \in EnrollmentIdInputs : AdminUnenroll(AdminEmail, e)
    \/ \E e \in EnrollmentIdInputs, k \in ClassIds :
            UpdateStudentClass(AdminEmail, e, k)

SpecCycles == Init /\ [][NextCycles]_vars

C28_UnenrollLeavesNoneActive ==
    (resp.op = "unenroll" /\ resp.status = 200) =>
        ActiveEnrollmentIds(enrollments, resp.uid, resp.req.course_id) = {}

\* the unenroll succeeded on a pair that has a deactivated row of an earlier cycle
C28_Witness ==
    /\ resp.op = "unenroll"
    /\ resp.status = 200
    /\ Cardinality(EnrollmentIds(enrollments, resp.uid, resp.req.course_id)) > 1

(***************************************************************************)
(* DELETE /users/{user_id}: services/users.py delete_user behind           *)
(* routes/users.py delete_user_admin.  The tables of the student rows are  *)
(* kept in id order; a DELETE takes rows out and keeps the order of the    *)
(* others.                                                                 *)
(***************************************************************************)
\* delete(T).where(T.student_id == user.id) on a table of rows
WithoutStudent(rows, uid) == SelectSeq(rows, LAMBDA row : row.student_id # uid)

\* the same on a table kept as the student_id of each row
WithoutOwner(ids, uid) == SelectSeq(ids, LAMBDA x : x # uid)

\* update(LessonQuestion).where(student_id == user.id).values(student_id=None)
Orphaned(questions, uid) ==
    [q \in DOMAIN questions |->
        IF questions[q].student_id = uid
        THEN [questions[q] EXCEPT !.student_id = None] ELSE questions[q]]

\* any((Course, Subject, LiveClass, Exam, LessonAnswer of the teacher))
ActiveDependencies(own, uid) == OwnedBy(own, uid) # {}

\* if user.role == "student"
IsStudent(role) == role = "student"

\* the lesson questions of the student are deleted with the other rows
CleanQuestions_delete(questions, uid) == WithoutStudent(questions, uid)

CleanQuestions(questions, uid) == Orphaned(questions, uid)

delete_user(db, own, er, qa, sd, user_id) ==
    LET same(status) == [status |-> status, db |-> db, exam_results |-> er,
                         lesson_qa |-> qa, student_data |-> sd]
    IN IF user_id \notin DOMAIN db.users THEN same(404)
       ELSE IF db.users[user_id].role = "teacher" /\ ActiveDependencies(own, user_id)
       THEN same(404)
       ELSE LET student == IsStudent(db.users[user_id].role)
                rows1 == IF student THEN WithoutStudent(db.enrollments, user_id)
                         ELSE db.enrollments
                er1 == IF student THEN [er EXCEPT !.rows = WithoutStudent(@, user_id)]
                       ELSE er
                qa1 == IF student
                       THEN [qa EXCEPT !.questions = CleanQuestions(@, user_id)]
                       ELSE qa
                sd1 == IF student
                       THEN [t \in StudentTables |-> WithoutOwner(sd[t], user_id)]
                       ELSE sd
                links1 == IF student
                          THEN {l \in db.parent_links : l[1] # user_id /\ l[2] # user_id}
                          ELSE db.parent_links
            IN IF ReferencedBy(rows1, own, er1, qa1, sd1, user_id)
               THEN same(500)
               ELSE [status |-> 204,
                     db |-> DeleteUser([db EXCEPT !.enrollments = rows1,
                                                  !.parent_links = links1], user_id),
                     exam_results |-> er1, lesson_qa |-> qa1, student_data |-> sd1]

DeleteUserAdmin(token, user_id) ==
    LET auth == require_role(Db, tokens, token, "admin")
        r == IF auth.status # 200
             THEN [status |-> auth.status, db |-> Db, exam_results |-> exam_results,
                   lesson_qa |-> lesson_qa, student_data |-> student_data]
             ELSE delete_user(Db, owned, exam_results, lesson_qa, student_data, user_id)
    IN /\ users' = r.db.users
       /\ enrollments' = r.db.enrollments
       /\ parent_links' = r.db.parent_links
       /\ exam_results' = r.exam_results
       /\ lesson_qa' = r.lesson_qa
       /\ student_data' = r.student_data
       /\ pending' = StillPending(r.db)
       /\ resp' = Response("delete_user", r.status, user_id,
                    ReqOf(r, [role |-> IF user_id \in DOMAIN users
                                       THEN users[user_id].role ELSE "none",
                              owns |-> Cardinality(OwnedBy(owned, user_id))]))
       /\ UNCHANGED <<tokens, owned, platform_settings, catalog, inflight>>

(***************************************************************************)
(* Deletion: two teachers, two students with rows in every student table,  *)
(* their parent and an administrator who deletes users, changes roles and  *)
(* reassigns teachers.                                                     *)
(***************************************************************************)
DeleteIdInputs == {1, 2, 3, 4, 5, 9}

InitDelete ==
    /\ users = (1 :> User("a@x", "pw1", "teacher", TRUE))
            @@ (2 :> User("b@x", "pw1", "teacher", TRUE))
            @@ (3 :> User("s@x", "pw1", "student", TRUE))
            @@ (4 :> User("t@x", "pw1", "student", TRUE))
            @@ (5 :> User("p@x", "pw1", "parent", TRUE))
            @@ (6 :> User(AdminEmail, "pw1", "admin", TRUE))
    /\ enrollments = <<EnrollmentRow(3, 1, None, TRUE), EnrollmentRow(4, 1, None, FALSE)>>
    /\ parent_links = {<<5, 3>>, <<5, 4>>}
    /\ tokens = {AdminEmail}
    /\ pending = {}
    /\ resp = Response("none", 0, None, NoReq)
    /\ \E e \in {1, 2} :
            owned = [courses |-> <<1>>, subjects |-> <<None>>, live_classes |-> <<>>,
                     exams |-> <<e>>, lesson_answers |-> <<e>>]
    /\ platform_settings = <<>>
    /\ exam_results = [rows |-> <<ExamResult(1, 3, 80), ExamResult(1, 4, 70)>>,
                       published |-> {1}]
    /\ catalog = [NoCatalog EXCEPT !.subjects = <<Subject(1, None)>>,
                                   !.lessons = <<Lesson(1, 1, "t")>>,
                                   !.exams = <<1>>]
    /\ lesson_qa = [questions |-> <<LessonQuestion(1, 3), LessonQuestion(1, 4)>>,
                    answers |-> <<LessonAnswer(1, "x")>>]
    /\ student_data = [class_progress |-> <<3, 4>>, lesson_progress |-> <<4, 3>>,
                       notes |-> <<3, 4, 3>>]
    /\ inflight = <<>>

NextDelete ==
    \/ \E uid \in DeleteIdInputs : DeleteUserAdmin(AdminEmail, uid)
    \/ DeleteUserAdmin(NoToken, 3)
    \/ \E uid \in {1, 2, 3}, role \in {"student", "teacher", "parent"} :
            UpdateUser(AdminEmail, uid, NoChange, role, NoChange, NoChange)
    \/ \E t, r \in {1, 2, 3} : ReassignTeacherAndDelete(AdminEmail, t, r)

SpecDelete == InitDelete /\ [][NextDelete]_vars

\* a teacher pointer is set (Subject.instructor_id may be null) and names a user
Dangling(own) ==
    {x \in UNION {{<<t, i>> : i \in DOMAIN own[t]} : t \in OwnedTables} :
        own[x[1]][x[2]] # None /\ own[x[1]][x[2]] \notin DOMAIN users}

\* C29: no teacher reference dangles: in every state reached by deletions,
\* updates of users (role changes included) and reassignments, every
\* course.teacher_id, subject.instructor_id, live-class, exam and
\* lesson-answer teacher_id names an existing user; delete_user on a user who
\* still owns such a row fails and leaves every table unchanged.
C29_NoDanglingTeacher ==
    /\ Dangling(owned) = {}
    /\ \A uid \in DOMAIN users :
            LET r == delete_user(Db, owned, exam_results, lesson_qa, student_data, uid)
            IN OwnedBy(owned, uid) # {} =>
                    /\ r.status # 204
                    /\ r.db = Db
                    /\ r.exam_results = exam_results
                    /\ r.lesson_qa = lesson_qa
                    /\ r.student_data = student_data

\* the deletion of a user who owns rows and no longer has the teacher role
\* was attempted and refused, and another owner was deleted by reassignment
C29_Witness ==
    /\ resp.op = "delete_user"
    /\ resp.status = 500
    /\ resp.req.role # "teacher"
    /\ resp.req.owns > 0
    /\ Cardinality(DOMAIN users) < 6

\* the rows of a table that belong to a student, in id order
RowsOf(rows, u) == SelectSeq(rows, LAMBDA row : row.student_id = u)

\* C30: after delete_user succeeds for a student s, no enrollment, class
\* progress, lesson progress, exam result, note or parent link names s; every
\* lesson question s asked is still there with its student reference null
\* (kept, not deleted); the rows of the other users are unchanged.
C30_StudentDeleteCleansUp ==
    \A s \in StudentIds(users) :
        LET r == delete_user(Db, owned, exam_results, lesson_qa, student_data, s)
            others == DOMAIN users \ {s}
        IN r.status = 204 =>
            /\ s \notin DOMAIN r.db.users
            /\ ~ReferencedBy(r.db.enrollments, NoOwned, r.exam_results, r.lesson_qa,
                             r.student_data, s)
            /\ DOMAIN r.lesson_qa.questions = DOMAIN lesson_qa.questions
            /\ \A q \in DOMAIN lesson_qa.questions :
                    /\ r.lesson_qa.questions[q].lesson_id = lesson_qa.questions[q].lesson_id
                    /\ r.lesson_qa.questions[q].student_id =
                            IF lesson_qa.questions[q].student_id = s THEN None
                            ELSE lesson_qa.questions[q].student_id
            /\ r.lesson_qa.answers = lesson_qa.answers
            /\ r.exam_results.published = exam_results.published
            /\ \A u \in others :
                    /\ r.db.users[u] = users[u]
                    /\ RowsOf(r.db.enrollments, u) = RowsOf(enrollments, u)
                    /\ RowsOf(r.exam_results.rows, u) = RowsOf(exam_results.rows, u)
                    /\ \A t \in StudentTables :
                            Cardinality({i \in DOMAIN r.student_data[t] :
                                            r.student_data[t][i] = u})
                                = Cardinality({i \in DOMAIN student_data[t] :
                                                student_data[t][i] = u})
            /\ r.db.parent_links = {l \in parent_links : l[1] # s /\ l[2] # s}

\* a student who had asked a question was deleted: the question is there
\* without a student, and the other student still has rows in every table
C30_Witness ==
    /\ resp.op = "delete_user"
    /\ resp.status = 204
    /\ resp.req.role = "student"
    /\ resp.uid \notin DOMAIN users
    /\ \E q \in DOMAIN lesson_qa.questions : lesson_qa.questions[q].student_id = None
    /\ \E u \in DOMAIN users :
            /\ RowsOf(enrollments, u) # <<>>
            /\ RowsOf(exam_results.rows, u) # <<>>
            /\ \A t \in StudentTables : \E i \in DOMAIN student_data[t] : student_data[t][i] = u

====
